---- MODULE Spec2Model ----
(***************************************************************************)
(* Browser-resident file vault: StorageManager over an IndexedDB backend   *)
(* and a localStorage backend, quota admission, and the upload batch of    *)
(* the data processor.                                                     *)
(***************************************************************************)
EXTENDS Integers, Sequences, FiniteSets, TLC

VARIABLES
    supIDB,      \* 'indexedDB' in window
    supLS,       \* localStorage.setItem works
    backends,    \* StorageManager.backends: sequence of backend type tags
    currentBackend, \* StorageManager.currentBackend
    initPc,      \* position of each initializeBackends task
    idbFiles,    \* committed records of object store 'files'
    idbMeta,     \* committed records of object store 'metadata'
    idbTx,       \* readwrite transaction of a resolved store, not yet finished
    lsFiles,     \* localStorage['data_bhandaar_files']
    lsIndex,     \* localStorage['data_bhandaar_file_index']
    lsCalls,     \* LocalStorageBackend calls made directly, in call order
    ret,         \* outcome of the last completed manager call
    quota,       \* outcome of navigator.storage.estimate()
    admit,       \* outcome of the last canStoreFile call
    batch,       \* files handed to processFiles
    opts,        \* conversion check boxes of the upload form
    bpos,        \* index of the next file of the batch to store
    results,     \* storageResults of storeAndProcessFiles
    isProcessing, \* the processing lock of the page
    bpc,         \* position of the upload batch
    jres         \* results object of the last processJsonFile call

vars == <<supIDB, supLS, backends, currentBackend, initPc, idbFiles, idbMeta,
          idbTx, lsFiles, lsIndex, lsCalls, ret, quota, admit, batch, opts, bpos,
          results, isProcessing, bpc, jres>>

mgrVars == <<supIDB, supLS, backends, currentBackend, initPc>>
idbVars == <<idbFiles, idbMeta, idbTx>>
lsVars == <<lsFiles, lsIndex, lsCalls>>
quotaVars == <<quota, admit>>
batchVars == <<batch, opts, bpos, results, isProcessing, bpc, jres>>

----------------------------------------------------------------------------
(* Bounds of the model *)

MaxIds == 2        \* distinct values the id generators can return
MaxRecords == 1    \* records the store calls may keep at one time
MaxFileSize == 3   \* candidate sizes 0..MaxFileSize offered to canStoreFile
MaxBatch == 2      \* files in one upload batch

(* Program constants *)

CompressThreshold == 500 * 1024
LsMaxFileSize == 5 * 1024 * 1024
SelectLimit == 5 * 1024 * 1024
safetyMargin == 10 * 1024 * 1024

Null == [null |-> TRUE]
\* new Date().toISOString(): the clock does not move in the model
Now == "now"
Users == {"u1", "u2"}
IDB == "indexedDB"
LS == "localStorage"

Range(s) == {s[i] : i \in DOMAIN s}

----------------------------------------------------------------------------
(* Files offered to the program.  bytes stands for the file's content; size *)
(* is the byte count the File object reports.                               *)

File(n, t, s, b) ==
    [name |-> n, type |-> t, size |-> s, bytes |-> b, lastModified |-> 1]

Files ==
    { File("a.txt", "text/plain", 1000, <<77, 97, 110>>),
      File("b.png", "image/png", CompressThreshold, <<77>>),
      File("c.png", "image/png", CompressThreshold + 1, <<77, 97>>),
      File("d.bin", "", LsMaxFileSize, <<>>),
      File("e.bin", "", LsMaxFileSize + 1, <<255, 0>>) }

----------------------------------------------------------------------------
(* Host conversions *)

\* btoa as FileReader.readAsDataURL applies it: 3 bytes -> 4 sextets, 64 is '='
RECURSIVE Base64Encode(_)
Base64Encode(b) ==
    IF Len(b) = 0 THEN <<>>
    ELSE IF Len(b) = 1 THEN
        <<b[1] \div 4, (b[1] % 4) * 16, 64, 64>>
    ELSE IF Len(b) = 2 THEN
        <<b[1] \div 4, (b[1] % 4) * 16 + (b[2] \div 16), (b[2] % 16) * 4, 64>>
    ELSE
        <<b[1] \div 4, (b[1] % 4) * 16 + (b[2] \div 16),
          (b[2] % 16) * 4 + (b[3] \div 64), b[3] % 64>>
        \o Base64Encode(SubSeq(b, 4, Len(b)))

\* the decoding fetch() applies to a base64 data: URL
RECURSIVE Base64Decode(_)
Base64Decode(s) ==
    IF Len(s) < 4 THEN <<>>
    ELSE IF s[3] = 64 THEN
        <<s[1] * 4 + (s[2] \div 16)>>
    ELSE IF s[4] = 64 THEN
        <<s[1] * 4 + (s[2] \div 16), (s[2] % 16) * 16 + (s[3] \div 4)>>
    ELSE
        <<s[1] * 4 + (s[2] \div 16), (s[2] % 16) * 16 + (s[3] \div 4),
          (s[3] % 4) * 64 + s[4]>>
        \o Base64Decode(SubSeq(s, 5, Len(s)))

\* FileReader.readAsDataURL(file): "data:<type>;base64,<payload>"
fileToBase64(file) ==
    [mime |-> IF file.type = "" THEN "application/octet-stream" ELSE file.type,
     b64 |-> Base64Encode(file.bytes)]

\* (await fetch(dataUrl)).blob()
FetchBlob(url) == [type |-> url.mime, bytes |-> Base64Decode(url.b64)]

\* FileReader.readAsArrayBuffer(file)
fileToArrayBuffer(file) == file.bytes

\* URL.createObjectURL(blob)
ObjectURL == "blob:"

\* new Blob([data], {type})
NewBlob(data, type) == [type |-> type, bytes |-> data]

\* object spread {...a, ...b}: the keys of b override those of a
Spread(a, b) ==
    [k \in (DOMAIN a) \cup (DOMAIN b) |-> IF k \in DOMAIN b THEN b[k] ELSE a[k]]

\* generateFileId of either backend: prefix, then clock and random suffix
FileId(prefix, n) == [prefix |-> prefix, n |-> n]
IdbIds == {FileId("idb_", n) : n \in 1..MaxIds}
LsIds == {FileId("ls_", n) : n \in 1..MaxIds}
AllIds == IdbIds \cup LsIds

\* metadata the backends add to what the caller passed
BackendMetadata(metadata, file) ==
    Spread(metadata, [filename |-> file.name, size |-> file.size,
                      filetype |-> file.type])

----------------------------------------------------------------------------
(* LocalStorageBackend *)

EmptyMap == [u \in {} |-> <<>>]

\* a localStorage key: Absent (getItem gives null) or Item(value), the value
\* being what JSON.parse gives for the stored string.  JSON.stringify and
\* JSON.parse keep the strings, numbers and booleans of these records as
\* they are.
Absent == <<>>
Item(value) == <<value>>

\* JSON.parse(localStorage.getItem(key) || '{}')
LsParse(item) == IF item = Absent THEN EmptyMap ELSE item[1]

\* LocalStorageBackend.init: creates either key only when it is missing
\* an init that writes the empty map whatever the key holds
LsInitFiles_Reset(files) == Item(EmptyMap)

LsInitFiles(files) == IF files = Absent THEN Item(EmptyMap) ELSE files
LsInitIndex(index) == IF index = Absent THEN Item(EmptyMap) ELSE index

LsFileData(fileId, username, file, category, metadata) ==
    [id |-> fileId, filename |-> file.name, filetype |-> file.type,
     size |-> file.size, category |-> category, uploadDate |-> Now,
     username |-> username, metadata |-> BackendMetadata(metadata, file),
     data |-> fileToBase64(file)]

\* saveToLocalStorage: read both keys, push, write files, then write index.
\* wr names the setItem the host denies ("deny1", "deny2") or "ok".
saveToLocalStorage(files, index, fileId, fileData, username, wr) ==
    LET f0 == LsParse(files)
        i0 == LsParse(index)
        f1 == [u \in (DOMAIN f0) \cup {username} |->
                 IF u = username
                 THEN (IF u \in DOMAIN f0 THEN f0[u] ELSE <<>>) \o <<fileData>>
                 ELSE f0[u]]
        i1 == [k \in (DOMAIN i0) \cup {fileId} |->
                 IF k = fileId THEN [username |-> username, backend |-> LS]
                 ELSE i0[k]]
    IN  IF wr = "deny1" THEN [ok |-> FALSE, files |-> files, index |-> index]
        ELSE IF wr = "deny2"
        THEN [ok |-> FALSE, files |-> Item(f1), index |-> index]
        ELSE [ok |-> TRUE, files |-> Item(f1), index |-> Item(i1)]

\* a storeFile that writes first and tests the size afterwards
LsStoreFile_CheckAfterWrite(files, index, username, file, category, metadata, n, rd, wr) ==
    LET fileId == FileId("ls_", n)
        fileData == LsFileData(fileId, username, file, category, metadata)
        sv == saveToLocalStorage(files, index, fileId, fileData, username, wr)
    IN  IF rd = "fail" THEN
            [ok |-> FALSE, err |-> "ReadError", files |-> files, index |-> index]
        ELSE IF ~sv.ok THEN
            [ok |-> FALSE, err |-> "QuotaExceeded",
             files |-> sv.files, index |-> sv.index]
        ELSE IF file.size > LsMaxFileSize THEN
            [ok |-> FALSE, err |-> "TooLarge", files |-> sv.files, index |-> sv.index]
        ELSE [ok |-> TRUE, val |-> Spread(fileData, [storage |-> "LocalStorage"]),
              files |-> sv.files, index |-> sv.index]

\* LocalStorageBackend.storeFile
LsStoreFile(files, index, username, file, category, metadata, n, rd, wr) ==
    IF file.size > LsMaxFileSize THEN
        [ok |-> FALSE, err |-> "TooLarge", files |-> files, index |-> index]
    ELSE IF rd = "fail" THEN
        [ok |-> FALSE, err |-> "ReadError", files |-> files, index |-> index]
    ELSE
        LET fileId == FileId("ls_", n)
            fileData == LsFileData(fileId, username, file, category, metadata)
            sv == saveToLocalStorage(files, index, fileId, fileData, username, wr)
        IN  IF sv.ok
            THEN [ok |-> TRUE, val |-> Spread(fileData, [storage |-> "LocalStorage"]),
                  files |-> sv.files, index |-> sv.index]
            ELSE [ok |-> FALSE, err |-> "QuotaExceeded",
                  files |-> sv.files, index |-> sv.index]

\* a || b || ... || dflt over strings: undefined and '' are falsy
RECURSIVE FirstStr(_, _)
FirstStr(cands, dflt) ==
    IF cands = <<>> THEN dflt
    ELSE IF Head(cands) # "" THEN Head(cands)
    ELSE FirstStr(Tail(cands), dflt)

\* a || b || ... || dflt over numbers: undefined and 0 are falsy
RECURSIVE FirstNum(_, _)
FirstNum(cands, dflt) ==
    IF cands = <<>> THEN dflt
    ELSE IF Head(cands) # 0 THEN Head(cands)
    ELSE FirstNum(Tail(cands), dflt)

\* r?.k for a string field / a number field (undefined becomes the falsy value)
StrAt(r, k) == IF k \in DOMAIN r THEN r[k] ELSE ""
NumAt(r, k) == IF k \in DOMAIN r THEN r[k] ELSE 0
\* metadata?.intelligentAnalysis, the empty record when there is none
AnalysisOf(metadata) ==
    IF "intelligentAnalysis" \in DOMAIN metadata
    THEN metadata.intelligentAnalysis ELSE [x \in {} |-> 0]

\* the map callback of LocalStorageBackend.getUserFiles
LsSummary(file) ==
    [id |-> file.id,
     filename |-> FirstStr(<<StrAt(AnalysisOf(file.metadata), "filename"),
                             StrAt(file.metadata, "filename"), file.filename>>,
                           "file"),
     filetype |-> FirstStr(<<StrAt(AnalysisOf(file.metadata), "mainType"),
                             StrAt(file.metadata, "filetype"), file.filetype>>,
                           "unknown"),
     size |-> FirstNum(<<NumAt(AnalysisOf(file.metadata), "size"),
                         NumAt(file.metadata, "size"), file.size>>, 0),
     category |-> file.category, uploadDate |-> file.uploadDate,
     username |-> file.username, metadata |-> file.metadata]

\* LocalStorageBackend.getUserFiles
LsGetUserFiles(files, username) ==
    LET f0 == LsParse(files)
        userFiles == IF username \in DOMAIN f0 THEN f0[username] ELSE <<>>
    IN  [i \in 1..Len(userFiles) |-> LsSummary(userFiles[i])]

\* Array.prototype.find: first element with the id, 0 when there is none
FindIndex(userFiles, fileId) ==
    IF \E i \in 1..Len(userFiles) : userFiles[i].id = fileId
    THEN CHOOSE i \in 1..Len(userFiles) :
            /\ userFiles[i].id = fileId
            /\ \A j \in 1..(i - 1) : userFiles[j].id # fileId
    ELSE 0

\* LocalStorageBackend.getFile
LsGetFile(files, index, fileId) ==
    LET f0 == LsParse(files)
        i0 == LsParse(index)
    IN  IF fileId \notin DOMAIN i0 \/ i0[fileId].backend # LS THEN
            [ok |-> FALSE, err |-> "NotFound"]
        ELSE IF i0[fileId].username \notin DOMAIN f0 THEN
            [ok |-> FALSE, err |-> "TypeError"]
        ELSE
            LET userFiles == f0[i0[fileId].username]
                k == FindIndex(userFiles, fileId)
            IN  IF k = 0 THEN [ok |-> FALSE, err |-> "NotFound"]
                ELSE [ok |-> TRUE,
                      val |-> Spread(userFiles[k],
                                     [url |-> ObjectURL,
                                      blob |-> FetchBlob(userFiles[k].data)])]

\* Array.prototype.filter(f => f.id !== fileId)
RECURSIVE FilterOut(_, _)
FilterOut(s, fileId) ==
    IF s = <<>> THEN <<>>
    ELSE IF Head(s).id = fileId THEN FilterOut(Tail(s), fileId)
    ELSE <<Head(s)>> \o FilterOut(Tail(s), fileId)

\* LocalStorageBackend.deleteFile
LsDeleteFile(files, index, fileId) ==
    LET f0 == LsParse(files)
        i0 == LsParse(index)
    IN  IF fileId \notin DOMAIN i0 \/ i0[fileId].backend # LS THEN
            [ok |-> FALSE, err |-> "NotFound", files |-> files, index |-> index]
        ELSE
            LET u == i0[fileId].username
            IN  [ok |-> TRUE,
                 files |-> Item([w \in DOMAIN f0 |->
                              IF w = u THEN FilterOut(f0[w], fileId) ELSE f0[w]]),
                 index |-> Item([k \in (DOMAIN i0) \ {fileId} |-> i0[k]])]

----------------------------------------------------------------------------
(* IndexedDBBackend.  Both object stores are keyed by id (keyPath 'id').    *)

IdbFileData(fileId, username, file, category) ==
    [id |-> fileId, filename |-> file.name, filetype |-> file.type,
     size |-> file.size, category |-> category, uploadDate |-> Now,
     username |-> username, data |-> fileToArrayBuffer(file)]

IdbMetadataRecord(fileId, username, file, category, metadata) ==
    [id |-> fileId, username |-> username,
     metadata |-> BackendMetadata(metadata, file), category |-> category,
     uploadDate |-> Now]

HasKey(store, fileId) == \E r \in store : r.id = fileId
RecordAt(store, fileId) == CHOOSE r \in store : r.id = fileId

\* IndexedDBBackend.storeFile up to the moment its promise settles.  io is
\* what the host does: "readFail" (FileReader error), "deny1"/"deny2" (the
\* add of the file / of the metadata record fails for quota), "ok".  add()
\* of a key already present fails with a ConstraintError.  On resolve the
\* transaction tx is still open: the promise resolves in the success
\* handler of the second request, not on the transaction's completion.
IdbStoreFile(filesStore, metaStore, username, file, category, metadata, n, io) ==
    LET fileId == FileId("idb_", n)
    IN  IF io = "readFail" THEN [ok |-> FALSE, err |-> "ReadError", tx |-> Null]
        ELSE IF HasKey(filesStore, fileId) \/ HasKey(metaStore, fileId) THEN
            [ok |-> FALSE, err |-> "ConstraintError", tx |-> Null]
        ELSE IF io \in {"deny1", "deny2"} THEN
            [ok |-> FALSE, err |-> "QuotaExceeded", tx |-> Null]
        ELSE
            [ok |-> TRUE,
             val |-> [id |-> fileId, filename |-> file.name,
                      filetype |-> file.type, size |-> file.size,
                      category |-> category, uploadDate |-> Now,
                      username |-> username, metadata |-> metadata,
                      storage |-> "IndexedDB"],
             tx |-> [file |-> IdbFileData(fileId, username, file, category),
                     meta |-> IdbMetadataRecord(fileId, username, file,
                                                category, metadata)]]

\* the records of a store in key order (getAll returns them sorted by key)
RECURSIVE InKeyOrder(_)
InKeyOrder(store) ==
    IF store = {} THEN <<>>
    ELSE LET r == CHOOSE x \in store : \A y \in store : x.id.n <= y.id.n
         IN  <<r>> \o InKeyOrder(store \ {r})

\* the map callback of IndexedDBBackend.getUserFiles
IdbSummary(item) ==
    [id |-> item.id,
     filename |-> FirstStr(<<StrAt(AnalysisOf(item.metadata), "filename"),
                             StrAt(item.metadata, "filename")>>, "file"),
     filetype |-> FirstStr(<<StrAt(AnalysisOf(item.metadata), "mainType"),
                             StrAt(item.metadata, "filetype")>>, "unknown"),
     size |-> FirstNum(<<NumAt(AnalysisOf(item.metadata), "size"),
                         NumAt(item.metadata, "size")>>, 0),
     category |-> item.category, uploadDate |-> item.uploadDate,
     username |-> item.username, metadata |-> item.metadata]

\* IndexedDBBackend.getUserFiles: index('username').getAll(username)
IdbGetUserFiles(metaStore, username) ==
    LET items == InKeyOrder({r \in metaStore : r.username = username})
    IN  [i \in 1..Len(items) |-> IdbSummary(items[i])]

\* IndexedDBBackend.getFile.  A file record without a metadata record makes
\* the success handler throw on metadata.metadata, and the promise never
\* settles ("hang").
IdbGetFile(filesStore, metaStore, fileId) ==
    IF ~HasKey(filesStore, fileId) THEN [ok |-> FALSE, err |-> "NotFound"]
    ELSE IF ~HasKey(metaStore, fileId) THEN [ok |-> FALSE, err |-> "hang"]
    ELSE LET fileData == RecordAt(filesStore, fileId)
             metadata == RecordAt(metaStore, fileId)
         IN  [ok |-> TRUE,
              val |-> Spread(Spread(fileData, metadata.metadata),
                             [url |-> ObjectURL,
                              blob |-> NewBlob(fileData.data, fileData.filetype)])]

\* IndexedDBBackend.deleteFile: delete() of an absent key succeeds; tx tells
\* whether the transaction completes ("ok") or reports an error ("error")
IdbDeleteFile(filesStore, metaStore, fileId, tx) ==
    IF tx = "error"
    THEN [ok |-> FALSE, err |-> "IOFailure", files |-> filesStore, meta |-> metaStore]
    ELSE [ok |-> TRUE, files |-> {r \in filesStore : r.id # fileId},
          meta |-> {r \in metaStore : r.id # fileId}]

----------------------------------------------------------------------------
(* StorageManager *)

\* the persisted state the backends work on
Store == [idbFiles |-> idbFiles, idbMeta |-> idbMeta,
          lsFiles |-> lsFiles, lsIndex |-> lsIndex]

\* category strings are kept as their '_'-separated tokens;
\* category.includes(token) for the tokens the code asks about
Includes(category, token) == token \in Range(category)

determineDirectory(category, metadata) ==
    IF Includes(category, "JSON") THEN
        IF StrAt(metadata, "jsonFormat") = "sql" THEN "/json-sql/"
        ELSE IF StrAt(metadata, "jsonFormat") = "nosql" THEN "/json-nosql/"
        ELSE "/json/"
    ELSE IF Includes(category, "MEDIA") THEN
        IF Includes(category, "IMAGE") THEN "/media/images/"
        ELSE IF Includes(category, "VIDEO") THEN "/media/videos/"
        ELSE IF Includes(category, "AUDIO") THEN "/media/audio/"
        ELSE "/media/"
    ELSE "/files/"

\* file.type.startsWith('image/') over the MIME types of the model
IsImageType(type) == type \in {"image/png", "image/jpeg"}

\* what canvas.toBlob hands to the callback: no blob, or a JPEG of some size;
\* "error" is img.onerror
CompressOutcomes(file) ==
    {[kind |-> "error", size |-> 0], [kind |-> "null", size |-> 0]}
    \cup {[kind |-> "blob", size |-> s] : s \in {file.size - 1, file.size}}

JpegBytes == <<255, 216>>

\* a toBlob callback that takes every blob not larger than the file
compressImage_NotLarger(file, c) ==
    IF c.kind = "blob" /\ c.size <= file.size
    THEN File(file.name, "image/jpeg", c.size, JpegBytes)
    ELSE file

\* compressImage, for the outcomes that resolve
compressImage(file, c) ==
    IF c.kind = "blob" /\ c.size < file.size
    THEN File(file.name, "image/jpeg", c.size, JpegBytes)
    ELSE file

\* the first lines of StorageManager.storeFile: processedFile
ProcessedFile(file, c) ==
    IF IsImageType(file.type) /\ file.size > CompressThreshold
    THEN (IF c.kind = "error" THEN file ELSE compressImage(file, c))
    ELSE file

Undefined == "undefined"

\* StorageManager.selectBackendForFile
selectBackendForFile(bk, file) ==
    IF Len(bk) >= 1 THEN bk[1]
    ELSE IF Len(bk) >= 2 /\ file.size < SelectLimit THEN bk[2]
    ELSE IF Len(bk) >= 1 THEN bk[1]
    ELSE IF Len(bk) >= 2 THEN bk[2]
    ELSE Undefined

\* StorageManager.storeFile.  ch holds what the host decides during the call:
\* ch.c the compressor's outcome, ch.n the generated id, ch.io the I/O outcome.
\* a storeFile that falls back on the localStorage backend when the write to
\* IndexedDB fails
StoreFile_Failover(bk, st, username, file, category, metadata, ch) ==
    LET processedFile == ProcessedFile(file, ch.c)
        backend == selectBackendForFile(bk, processedFile)
        md == Spread(metadata, [originalSize |-> file.size,
                                compressed |-> processedFile # file,
                                directory |-> determineDirectory(category, metadata)])
        same == [lsFiles |-> st.lsFiles, lsIndex |-> st.lsIndex, tx |-> Null,
                 backend |-> backend, processed |-> processedFile]
        idb == IdbStoreFile(st.idbFiles, st.idbMeta, username, processedFile,
                            category, md, ch.n, ch.io)
        ls == LsStoreFile(st.lsFiles, st.lsIndex, username, processedFile,
                          category, md, ch.n, "ok", "ok")
    IN  IF backend = Undefined THEN
            Spread(same, [ok |-> FALSE, err |-> "TypeError"])
        ELSE IF backend = IDB /\ idb.ok THEN Spread(same, idb)
        ELSE Spread(same, [ok |-> ls.ok,
                           err |-> IF ls.ok THEN "" ELSE ls.err,
                           val |-> IF ls.ok THEN ls.val ELSE Null,
                           lsFiles |-> ls.files, lsIndex |-> ls.index])

StoreFile(bk, st, username, file, category, metadata, ch) ==
    LET processedFile == ProcessedFile(file, ch.c)
        directory == determineDirectory(category, metadata)
        backend == selectBackendForFile(bk, processedFile)
        md == Spread(metadata, [originalSize |-> file.size,
                                compressed |-> processedFile # file,
                                directory |-> directory])
        same == [lsFiles |-> st.lsFiles, lsIndex |-> st.lsIndex, tx |-> Null,
                 backend |-> backend, processed |-> processedFile]
    IN  IF backend = Undefined THEN
            Spread(same, [ok |-> FALSE, err |-> "TypeError"])
        ELSE IF backend = IDB THEN
            LET r == IdbStoreFile(st.idbFiles, st.idbMeta, username,
                                  processedFile, category, md, ch.n, ch.io)
            IN  Spread(same, r)
        ELSE
            LET r == LsStoreFile(st.lsFiles, st.lsIndex, username, processedFile,
                                 category, md, ch.n,
                                 IF ch.io = "readFail" THEN "fail" ELSE "ok",
                                 ch.io)
            IN  Spread(same, [ok |-> r.ok,
                              err |-> IF r.ok THEN "" ELSE r.err,
                              val |-> IF r.ok THEN r.val ELSE Null,
                              lsFiles |-> r.files, lsIndex |-> r.index])

\* backend.getUserFiles(username) of the backend with tag b
BackendUserFiles(b, st, username) ==
    IF b = IDB THEN IdbGetUserFiles(st.idbMeta, username)
    ELSE LsGetUserFiles(st.lsFiles, username)

\* the inner loop without the seenFileIds test: every file is pushed
AddUnseen_PushAll(allFiles, files, from) ==
    allFiles \o [i \in 1..Len(files) |-> [file |-> files[i], from |-> from]]

\* the inner loop of StorageManager.getUserFiles: push the files not seen yet
RECURSIVE AddUnseen(_, _, _)
AddUnseen(allFiles, files, from) ==
    IF files = <<>> THEN allFiles
    ELSE LET file == Head(files)
             seenFileIds == {allFiles[i].file.id : i \in DOMAIN allFiles}
         IN  AddUnseen(IF file.id \notin seenFileIds
                       THEN Append(allFiles, [file |-> file, from |-> from])
                       ELSE allFiles,
                       Tail(files), from)

\* StorageManager.getUserFiles from backend i on; bad holds the positions of
\* the backends whose getUserFiles rejects
RECURSIVE UserFilesFrom(_, _, _, _, _, _)
UserFilesFrom(bk, st, username, bad, i, allFiles) ==
    IF i > Len(bk) THEN allFiles
    ELSE UserFilesFrom(bk, st, username, bad, i + 1,
            IF i \in bad THEN allFiles
            ELSE AddUnseen(allFiles, BackendUserFiles(bk[i], st, username), i))

GetUserFiles(bk, st, username, bad) ==
    UserFilesFrom(bk, st, username, bad, 1, <<>>)

\* files.reduce((sum, file) => sum + file.size, 0)
RECURSIVE TotalSize(_)
TotalSize(files) ==
    IF files = <<>> THEN 0 ELSE Head(files).size + TotalSize(Tail(files))

\* this.maxSize of the two backends, in MiB (200 GiB and 10 MiB)
IdbMaxSizeMiB == 200 * 1024
LsMaxSizeMiB == 10

\* backend.getStats(username) of the backend with tag b
BackendStats(b, st, username) ==
    LET files == BackendUserFiles(b, st, username)
    IN  [type |-> b, fileCount |-> Len(files), totalSize |-> TotalSize(files),
         maxSize |-> [MiB |-> IF b = IDB THEN IdbMaxSizeMiB ELSE LsMaxSizeMiB]]

\* the loop of getStorageStats without its try: the first getStats that
\* rejects ends the loop
RECURSIVE StatsFrom_StopAtFailure(_, _, _, _, _, _)
StatsFrom_StopAtFailure(bk, st, username, badStats, i, backendStats) ==
    IF i > Len(bk) \/ i \in badStats THEN backendStats
    ELSE StatsFrom_StopAtFailure(bk, st, username, badStats, i + 1,
            Append(backendStats, BackendStats(bk[i], st, username)))

\* the loop of StorageManager.getStorageStats from backend i on; badStats
\* holds the positions of the backends whose getStats rejects
RECURSIVE StatsFrom(_, _, _, _, _, _)
StatsFrom(bk, st, username, badStats, i, backendStats) ==
    IF i > Len(bk) THEN backendStats
    ELSE StatsFrom(bk, st, username, badStats, i + 1,
            IF i \in badStats THEN backendStats
            ELSE Append(backendStats, BackendStats(bk[i], st, username)))

\* [...new Set(seq)]: the values in the order of their first occurrence
RECURSIVE Distinct(_, _)
Distinct(seq, seen) ==
    IF seq = <<>> THEN seen
    ELSE Distinct(Tail(seq),
                  IF \E k \in DOMAIN seen : seen[k] = Head(seq) THEN seen
                  ELSE Append(seen, Head(seq)))

\* Math.min((totalSize / (1024 * 1024 * 1024)) * 100, 100).toFixed(1), as the
\* number of tenths of a percent (totalSize is first cut to a multiple of
\* 128 bytes to keep the product within 32 bits)
UsedPercentage(totalSize) ==
    LET tenths == ((totalSize \div 128) * 125 + 2^19) \div 2^20
    IN  [tenths |-> IF tenths < 1000 THEN tenths ELSE 1000]

\* StorageManager.getStorageStats
GetStorageStats(bk, st, username, bad, badStats) ==
    LET all == GetUserFiles(bk, st, username, bad)
        files == [i \in DOMAIN all |-> all[i].file]
        totalSize == TotalSize(files)
    IN  [fileCount |-> Len(files),
         totalSize |-> totalSize,
         usedPercentage |-> UsedPercentage(totalSize),
         categories |-> Distinct([i \in DOMAIN files |-> files[i].category], <<>>),
         backends |-> StatsFrom(bk, st, username, badStats, 1, <<>>)]

\* the characters of the strings searchFiles looks into, and of its queries
Chars(s) ==
    CASE s = "c.png" -> <<"c", ".", "p", "n", "g">>
      [] s = "d.bin" -> <<"d", ".", "b", "i", "n">>
      [] s = "e.bin" -> <<"e", ".", "b", "i", "n">>
      [] s = "file" -> <<"f", "i", "l", "e">>
      [] s = "memo" -> <<"m", "e", "m", "o">>
      [] s = "MEDIA" -> <<"M", "E", "D", "I", "A">>
      [] s = "IMAGE" -> <<"I", "M", "A", "G", "E">>
      [] s = "UNKNOWN" -> <<"U", "N", "K", "N", "O", "W", "N">>
      [] s = "PNG" -> <<"P", "N", "G">>
      [] s = "n_u" -> <<"n", "_", "u">>
      [] s = "Mem" -> <<"M", "e", "m">>
      [] OTHER -> <<>>

\* the category string: the tokens joined by '_'
RECURSIVE CategoryChars(_)
CategoryChars(tokens) ==
    IF tokens = <<>> THEN <<>>
    ELSE IF Len(tokens) = 1 THEN Chars(tokens[1])
    ELSE Chars(tokens[1]) \o <<"_">> \o CategoryChars(Tail(tokens))

UpperCase == <<"A", "B", "C", "D", "E", "F", "G", "H", "I", "J", "K", "L", "M",
               "N", "O", "P", "Q", "R", "S", "T", "U", "V", "W", "X", "Y", "Z">>
LowerCase == <<"a", "b", "c", "d", "e", "f", "g", "h", "i", "j", "k", "l", "m",
               "n", "o", "p", "q", "r", "s", "t", "u", "v", "w", "x", "y", "z">>

\* the lower-case form of a character: letters change, '.' and '_' do not
LowerOf ==
    [c \in Range(UpperCase) \cup Range(LowerCase) \cup {".", "_"} |->
        IF \E k \in DOMAIN UpperCase : UpperCase[k] = c
        THEN LowerCase[CHOOSE k \in DOMAIN UpperCase : UpperCase[k] = c]
        ELSE c]

\* String.prototype.toLowerCase, character by character
toLowerCase(chars) == [i \in DOMAIN chars |-> LowerOf[chars[i]]]

\* String.prototype.includes
includes(chars, searchTerm) ==
    \E i \in 0..(Len(chars) - Len(searchTerm)) :
       SubSeq(chars, i + 1, i + Len(searchTerm)) = searchTerm

\* a filter callback that compares the fields with the query as typed
SearchMatches_AsTyped(file, query) ==
    \/ includes(toLowerCase(Chars(file.filename)), query)
    \/ includes(toLowerCase(CategoryChars(file.category)), query)
    \/ /\ StrAt(file.metadata, "description") # ""
       /\ includes(toLowerCase(Chars(file.metadata.description)), query)

\* the filter callback of StorageManager.searchFiles; query is the lower-cased
\* searchTerm
SearchMatches(file, query) ==
    LET searchTerm == toLowerCase(query)
    IN  \/ includes(toLowerCase(Chars(file.filename)), searchTerm)
        \/ includes(toLowerCase(CategoryChars(file.category)), searchTerm)
        \/ /\ StrAt(file.metadata, "description") # ""
           /\ includes(toLowerCase(Chars(file.metadata.description)),
                       searchTerm)

\* StorageManager.searchFiles
SearchFiles(bk, st, username, query, bad) ==
    LET all == GetUserFiles(bk, st, username, bad)
        files == [i \in DOMAIN all |-> all[i].file]
    IN  SelectSeq(files, LAMBDA file : SearchMatches(file, query))

\* backend.getFile(fileId) of the backend with tag b
BackendGetFile(b, st, fileId) ==
    IF b = IDB THEN IdbGetFile(st.idbFiles, st.idbMeta, fileId)
    ELSE LsGetFile(st.lsFiles, st.lsIndex, fileId)

\* StorageManager.getFile from backend i on; bad holds the positions of the
\* backends whose read request fails
RECURSIVE GetFileFrom(_, _, _, _, _)
GetFileFrom(bk, st, fileId, bad, i) ==
    IF i > Len(bk) THEN [ok |-> FALSE, err |-> "NotFound", from |-> 0]
    ELSE LET r == BackendGetFile(bk[i], st, fileId)
         IN  IF i \notin bad /\ r.ok
             THEN [ok |-> TRUE, val |-> r.val, from |-> i]
             ELSE GetFileFrom(bk, st, fileId, bad, i + 1)

\* a probe that goes through every backend and keeps the last hit
GetFile_LastHit(bk, st, fileId, bad) ==
    LET hits == {i \in (DOMAIN bk) \ bad : BackendGetFile(bk[i], st, fileId).ok}
        last == CHOOSE i \in hits : \A k \in hits : k <= i
    IN  IF hits = {} THEN [ok |-> FALSE, err |-> "NotFound", from |-> 0]
        ELSE [ok |-> TRUE, val |-> BackendGetFile(bk[last], st, fileId).val,
              from |-> last]

GetFile(bk, st, fileId, bad) == GetFileFrom(bk, st, fileId, bad, 1)

\* StorageManager.deleteFile from backend i on; bad holds the positions of
\* the IndexedDB backends whose delete transaction reports an error
RECURSIVE DeleteFileFrom(_, _, _, _, _, _)
DeleteFileFrom(bk, st, fileId, bad, i, deleted) ==
    IF i > Len(bk) THEN [deleted |-> deleted, st |-> st]
    ELSE IF bk[i] = IDB THEN
        LET r == IdbDeleteFile(st.idbFiles, st.idbMeta, fileId,
                               IF i \in bad THEN "error" ELSE "ok")
        IN  DeleteFileFrom(bk, Spread(st, [idbFiles |-> r.files, idbMeta |-> r.meta]),
                           fileId, bad, i + 1, deleted \/ r.ok)
    ELSE
        LET r == LsDeleteFile(st.lsFiles, st.lsIndex, fileId)
        IN  DeleteFileFrom(bk, Spread(st, [lsFiles |-> r.files, lsIndex |-> r.index]),
                           fileId, bad, i + 1, deleted \/ r.ok)

DeleteFile(bk, st, fileId, bad) == DeleteFileFrom(bk, st, fileId, bad, 1, FALSE)

----------------------------------------------------------------------------
(* IntelligentDataProcessor *)

\* the JSON texts of the model are written with '{' '}' '[' ']'
LBrace == 123
RBrace == 125
LBracket == 91
RBracket == 93

\* JSON.parse of the value that starts at b[i]: "{}", "[]" or "[" value "]";
\* next is the index after the value
RECURSIVE ParseValue(_, _)
ParseValue(b, i) ==
    IF i + 1 <= Len(b) /\ b[i] = LBrace /\ b[i + 1] = RBrace THEN
        [ok |-> TRUE, next |-> i + 2, isArray |-> FALSE, length |-> 0]
    ELSE IF i + 1 <= Len(b) /\ b[i] = LBracket /\ b[i + 1] = RBracket THEN
        [ok |-> TRUE, next |-> i + 2, isArray |-> TRUE, length |-> 0]
    ELSE IF i <= Len(b) /\ b[i] = LBracket THEN
        LET r == ParseValue(b, i + 1)
        IN  IF r.ok /\ r.next <= Len(b) /\ b[r.next] = RBracket
            THEN [ok |-> TRUE, next |-> r.next + 1, isArray |-> TRUE, length |-> 1]
            ELSE [ok |-> FALSE, next |-> i, isArray |-> FALSE, length |-> 0]
    ELSE [ok |-> FALSE, next |-> i, isArray |-> FALSE, length |-> 0]

\* JSON.parse(text): the whole text has to be one value
JSONParse(bytes) ==
    LET r == ParseValue(bytes, 1)
    IN  IF r.ok /\ r.next = Len(bytes) + 1
        THEN [ok |-> TRUE, val |-> [isArray |-> r.isArray, length |-> r.length]]
        ELSE [ok |-> FALSE, val |-> Null]

\* name.split('.').pop().toLowerCase() over the file names of the model
Extension(name) ==
    CASE name \in {"a.txt"} -> "txt"
      [] name \in {"b.png", "c.png"} -> "png"
      [] name \in {"d.bin", "e.bin"} -> "bin"
      [] name = "REPORT.PDF" -> "pdf"
      [] name = "dump.sql" -> "sql"
      [] name = "x.tar.gz" -> "gz"
      [] name = "clip.mp4" -> "mp4"
      [] name = "notes" -> "notes"
      [] name = "json" -> "json"
      [] name = "x.constructor" -> "constructor"
      [] OTHER -> "json"

\* file.name.toLowerCase().endsWith('.json'): "json" is the one name of the
\* model whose last part is json and that has no dot
EndsWithDotJson(name) == Extension(name) = "json" /\ name # "json"

\* the MIME patterns of LLMRegexPatterns.mediaTypes: the media kind of a
\* MIME type, "" when no pattern matches
mediaTypes(type) ==
    IF type \in {"image/png", "image/jpeg"} THEN "image" ELSE ""

\* the rows of extensionMap of detectFileType
extensionMap ==
    [e \in {"sql", "db", "sqlite", "sqlite3", "json", "jpg", "jpeg", "png",
            "gif", "webp", "bmp", "mp4", "avi", "mov", "mkv", "mp3", "wav",
            "ogg", "flac", "pdf", "txt", "csv", "doc", "docx", "zip", "rar",
            "tar", "gz"} |->
       CASE e = "sql" -> [mainType |-> "database", subType |-> "sql", confidence |-> 90]
         [] e = "db" -> [mainType |-> "database", subType |-> "sqlite", confidence |-> 85]
         [] e \in {"sqlite", "sqlite3"} ->
              [mainType |-> "database", subType |-> "sqlite", confidence |-> 90]
         [] e = "json" -> [mainType |-> "json", subType |-> "unknown", confidence |-> 85]
         [] e \in {"jpg", "jpeg", "png", "gif", "webp", "bmp"} ->
              [mainType |-> "media", subType |-> "image", confidence |-> 80]
         [] e \in {"mp4", "avi", "mov", "mkv"} ->
              [mainType |-> "media", subType |-> "video", confidence |-> 80]
         [] e \in {"mp3", "wav", "ogg", "flac"} ->
              [mainType |-> "media", subType |-> "audio", confidence |-> 80]
         [] e = "pdf" -> [mainType |-> "document", subType |-> "pdf", confidence |-> 80]
         [] e = "txt" -> [mainType |-> "document", subType |-> "text", confidence |-> 80]
         [] e = "csv" -> [mainType |-> "document", subType |-> "csv", confidence |-> 80]
         [] e \in {"doc", "docx"} ->
              [mainType |-> "document", subType |-> "word", confidence |-> 75]
         [] e = "zip" -> [mainType |-> "archive", subType |-> "zip", confidence |-> 80]
         [] e = "rar" -> [mainType |-> "archive", subType |-> "rar", confidence |-> 80]
         [] e = "tar" -> [mainType |-> "archive", subType |-> "tar", confidence |-> 80]
         [] OTHER -> [mainType |-> "archive", subType |-> "gzip", confidence |-> 80]]

\* file.type === 'application/json' || file.name.toLowerCase().endsWith('.json')
IsJSON(file) == file.type = "application/json" \/ EndsWithDotJson(file.name)

\* the lower-case property names an object literal inherits from
\* Object.prototype: extensionMap[extension] finds them as well
ObjectPrototype == {"constructor", "__proto__"}

detectFileType(file) ==
    IF mediaTypes(file.type) # "" THEN
        [mainType |-> "media", subType |-> mediaTypes(file.type),
         confidence |-> 95, filename |-> file.name, size |-> file.size]
    ELSE IF IsJSON(file) THEN
        [mainType |-> "json", subType |-> "unknown", confidence |-> 90,
         filename |-> file.name, size |-> file.size]
    ELSE IF Extension(file.name) \in DOMAIN extensionMap THEN
        extensionMap[Extension(file.name)]
    ELSE IF Extension(file.name) \in ObjectPrototype THEN
        \* a truthy value with none of the fields: it is what is returned
        [inherited |-> Extension(file.name)]
    ELSE
        [mainType |-> "unknown", subType |-> "unknown", confidence |-> 50,
         filename |-> file.name, size |-> file.size]

\* JSONConverter.analyzeStructure for the values JSONParse gives: a value
\* without nested objects is flat and recommended for SQL
analyzeStructure(jsonData) ==
    [depth |-> 1 + jsonData.length, itemCount |-> jsonData.length,
     isFlat |-> TRUE, isNested |-> FALSE, isRelational |-> FALSE,
     complexity |-> "flat", recommendation |-> "sql"]

\* analyzeJsonContent.  No pattern of jsonAnalysis or contentCategories
\* matches a text made of brackets, so both scores are 0 and the category
\* is 'general'.
analyzeJsonContent(file) ==
    LET p == JSONParse(file.bytes)
    IN  IF ~p.ok THEN
            [subType |-> "invalid", contentCategory |-> "invalid",
             error |-> "Unexpected end of JSON input",
             sqlScore |-> 0, nosqlScore |-> 0]
        ELSE
            LET structureAnalysis == analyzeStructure(p.val)
                sqlScore == 0
                nosqlScore == 0
                subType ==
                    IF structureAnalysis.recommendation = "sql"
                       \/ (sqlScore > nosqlScore /\ sqlScore > 0) THEN "sql"
                    ELSE IF structureAnalysis.recommendation = "nosql"
                       \/ (nosqlScore > sqlScore /\ nosqlScore > 0) THEN "nosql"
                    ELSE IF structureAnalysis.recommendation = "both" THEN "relational"
                    ELSE "generic"
            IN  [subType |-> subType, contentCategory |-> "general",
                 sqlScore |-> sqlScore, nosqlScore |-> nosqlScore,
                 size |-> Len(file.bytes), keyCount |-> p.val.length,
                 isArray |-> p.val.isArray, sampleKeys |-> <<>>,
                 structureAnalysis |-> structureAnalysis,
                 complexity |-> structureAnalysis.complexity,
                 depth |-> structureAnalysis.depth,
                 recommendation |-> structureAnalysis.recommendation]

\* analyzeMediaContent when the element reports no metadata (onerror)
analyzeMediaContent(file, fileType) ==
    [subType |-> fileType.subType, size |-> file.size,
     dimensions |-> Null, duration |-> Null]

analyzeFile(file) ==
    LET fileType == detectFileType(file)
        detailedAnalysis ==
            IF fileType.mainType = "json" THEN analyzeJsonContent(file)
            ELSE IF fileType.mainType = "media"
            THEN analyzeMediaContent(file, fileType)
            ELSE [x \in {} |-> 0]
    IN  Spread(Spread(fileType, detailedAnalysis),
               [filename |-> file.name, size |-> file.size,
                lastModified |-> file.lastModified])

\* String.prototype.toUpperCase over the subtype and category words
toUpperCase(s) ==
    CASE s = "sql" -> "SQL" [] s = "nosql" -> "NOSQL"
      [] s = "generic" -> "GENERIC" [] s = "relational" -> "RELATIONAL"
      [] s = "invalid" -> "INVALID" [] s = "general" -> "GENERAL"
      [] s = "image" -> "IMAGE" [] s = "video" -> "VIDEO"
      [] s = "audio" -> "AUDIO" [] s = "text" -> "TEXT"
      [] s = "unknown" -> "UNKNOWN" [] s = "sqlite" -> "SQLITE"
      [] s = "pdf" -> "PDF" [] s = "csv" -> "CSV" [] s = "word" -> "WORD"
      [] s = "zip" -> "ZIP" [] s = "rar" -> "RAR" [] s = "tar" -> "TAR"
      [] s = "gzip" -> "GZIP" [] OTHER -> "ERROR"

\* generateCategory: the '_'-separated tokens of the category string
generateCategory(analysis) ==
    IF analysis.mainType = "media" THEN <<"MEDIA", toUpperCase(analysis.subType)>>
    ELSE IF analysis.mainType = "json" THEN
        <<"JSON", toUpperCase(analysis.subType),
          toUpperCase(analysis.contentCategory)>>
    ELSE IF analysis.mainType = "database" THEN
        <<"DATABASE", toUpperCase(analysis.subType)>>
    ELSE IF analysis.mainType = "document" THEN
        <<"DOCUMENT", toUpperCase(analysis.subType)>>
    ELSE IF analysis.mainType = "archive" THEN
        <<"ARCHIVE", toUpperCase(analysis.subType)>>
    ELSE <<"UNKNOWN", toUpperCase(analysis.subType)>>

\* userSession.username of the page
UserSession == "u1"

\* IntelligentDataProcessor.storeFile
ProcessorStoreFile(bk, st, file, metadata, ch) ==
    LET analysis == analyzeFile(file)
        category == generateCategory(analysis)
    IN  StoreFile(bk, st, UserSession, file, category,
                  Spread(metadata, [intelligentAnalysis |-> analysis,
                                    uploadedAt |-> Now]), ch)

\* file.name.replace('.json', suffix) over the file names of the model
ConvertedName(name, format) ==
    CASE name = "good.json" /\ format = "sql" -> "good-sql.json"
      [] name = "good.json" /\ format = "nosql" -> "good-nosql.json"
      [] name = "bad.json" /\ format = "sql" -> "bad-sql.json"
      [] name = "bad.json" /\ format = "nosql" -> "bad-nosql.json"
      [] OTHER -> name

\* JSONConverter.convertToSQL / convertToNoSQL for the values JSONParse
\* gives: one table, one collection; an array gives a row or a document
\* per element, an object gives one
convertToSQL(jsonData) ==
    [tableCount |-> 1,
     totalRows |-> IF jsonData.isArray THEN jsonData.length ELSE 1]
convertToNoSQL(jsonData) ==
    [collectionCount |-> 1,
     totalDocuments |-> IF jsonData.isArray THEN jsonData.length ELSE 1]

\* new File([new Blob([JSON.stringify(content, null, 2)])], name): the text
\* starts with '{' and the quote of its first key
ConvertedFile(file, format) ==
    File(ConvertedName(file.name, format), "application/json",
         3, <<LBrace, 34, IF format = "sql" THEN 115 ELSE 99>>)

\* the stores of a processJsonFile that converts before it keeps the original
JsonPhases_ConvertFirst(o) ==
    (IF o.convertToSQL THEN <<"sql">> ELSE <<>>)
    \o (IF o.storeOriginal THEN <<"original">> ELSE <<>>)
    \o (IF o.convertToNoSQL THEN <<"nosql">> ELSE <<>>)

\* the stores of processJsonFile, in the order it makes them
JsonPhases(o) ==
    (IF o.storeOriginal THEN <<"original">> ELSE <<>>)
    \o (IF o.convertToSQL THEN <<"sql">> ELSE <<>>)
    \o (IF o.convertToNoSQL THEN <<"nosql">> ELSE <<>>)

\* results.preview is set once the stores are made, for both conversions
JsonPreview(o, todo) == todo = <<>> /\ o.convertToSQL /\ o.convertToNoSQL

\* one store of processJsonFile; j holds what it has stored so far
JsonPhaseStore(bk, st, phase, file, j, ch) ==
    LET jsonData == JSONParse(file.bytes).val
        structureAnalysis == analyzeStructure(jsonData)
        originalFileId == IF j.original # Null THEN j.original.id ELSE Null
    IN  IF phase = "original" THEN
            ProcessorStoreFile(bk, st, file,
                [jsonFormat |-> "original", description |-> "Original JSON file",
                 structureAnalysis |-> structureAnalysis,
                 conversionType |-> "null"], ch)
        ELSE IF phase = "sql" THEN
            StoreFile(bk, st, UserSession, ConvertedFile(file, "sql"),
                <<"JSON", "SQL", "CONVERTED">>,
                [jsonFormat |-> "sql", originalFile |-> file.name,
                 originalFileId |-> originalFileId,
                 tableCount |-> convertToSQL(jsonData).tableCount,
                 totalRows |-> convertToSQL(jsonData).totalRows,
                 description |-> "SQL-converted JSON structure",
                 conversionType |-> "sql",
                 structureAnalysis |-> structureAnalysis], ch)
        ELSE
            StoreFile(bk, st, UserSession, ConvertedFile(file, "nosql"),
                <<"JSON", "NOSQL", "CONVERTED">>,
                [jsonFormat |-> "nosql", originalFile |-> file.name,
                 originalFileId |-> originalFileId,
                 collectionCount |-> convertToNoSQL(jsonData).collectionCount,
                 totalDocuments |-> convertToNoSQL(jsonData).totalDocuments,
                 description |-> "NoSQL-converted JSON structure",
                 conversionType |-> "nosql",
                 structureAnalysis |-> structureAnalysis], ch)

\* the entries storeAndProcessFiles pushes once processJsonFile has returned
JsonResults(j) ==
    (IF j.original # Null THEN <<[success |-> TRUE, file |-> j.original]>> ELSE <<>>)
    \o (IF j.sql # Null THEN <<[success |-> TRUE, file |-> j.sql]>> ELSE <<>>)
    \o (IF j.nosql # Null THEN <<[success |-> TRUE, file |-> j.nosql]>> ELSE <<>>)

----------------------------------------------------------------------------
(* Initialisation of the manager: one task per init() call.  The           *)
(* constructor makes the first call and does not await it.                  *)

\* the init() call of the constructor and the explicit call of the page
InitTasks == {"constructor", "page"}

\* new LocalStorageBackend().init() runs up to its first await; without
\* localStorage the task goes on to set currentBackend and, after the
\* await of checkStorageQuota, only logs
LocalStoragePart(i, bk) ==
    IF supLS
    THEN /\ lsFiles' = LsInitFiles(lsFiles)
         /\ lsIndex' = LsInitIndex(lsIndex)
         /\ UNCHANGED lsCalls
         /\ backends' = bk
         /\ initPc' = [initPc EXCEPT ![i] = "lsInit"]
         /\ UNCHANGED currentBackend
    ELSE /\ backends' = bk
         /\ currentBackend' = IF Len(bk) >= 1 THEN bk[1] ELSE Undefined
         /\ initPc' = [initPc EXCEPT ![i] = "done"]
         /\ UNCHANGED lsVars

\* a later StorageManager.init() call: runs to await requestPersistentStorage()
InitCall(i) ==
    /\ initPc[i] = "idle"
    /\ initPc' = [initPc EXCEPT ![i] = "persist"]
    /\ UNCHANGED <<supIDB, supLS, backends, currentBackend, idbVars, lsVars,
                   ret, quotaVars, batchVars>>

\* requestPersistentStorage settled: open IndexedDB when it is supported
InitAfterPersist(i) ==
    /\ initPc[i] = "persist"
    /\ IF supIDB
       THEN /\ initPc' = [initPc EXCEPT ![i] = "idbOpen"]
            /\ UNCHANGED <<backends, currentBackend, lsVars>>
       ELSE LocalStoragePart(i, backends)
    /\ UNCHANGED <<supIDB, supLS, idbVars, ret, quotaVars, batchVars>>

\* indexedDBBackend.init() resolved: push it and go on with localStorage
InitIdbOpened(i) ==
    /\ initPc[i] = "idbOpen"
    /\ LocalStoragePart(i, Append(backends, IDB))
    /\ UNCHANGED <<supIDB, supLS, idbVars, ret, quotaVars, batchVars>>

\* indexedDBBackend.init() rejected: the await throws out of initializeBackends
InitIdbFailed(i) ==
    /\ initPc[i] = "idbOpen"
    /\ initPc' = [initPc EXCEPT ![i] = "failed"]
    /\ UNCHANGED <<supIDB, supLS, backends, currentBackend, idbVars, lsVars,
                   ret, quotaVars, batchVars>>

\* localStorageBackend.init() resolved: push it, set currentBackend.  What
\* is left of initializeBackends awaits checkStorageQuota and logs.
InitLsDone(i) ==
    /\ initPc[i] = "lsInit"
    /\ backends' = Append(backends, LS)
    /\ currentBackend' = backends'[1]
    /\ initPc' = [initPc EXCEPT ![i] = "done"]
    /\ UNCHANGED <<supIDB, supLS, idbVars, lsVars, ret, quotaVars,
                   batchVars>>

----------------------------------------------------------------------------
(* Transactions of IndexedDB.  Transactions with overlapping scope run one  *)
(* after the other, so a call that opens one waits for idbTx to finish.     *)

UsesIdb(bk) == IDB \in Range(bk)
IdbReady(bk) == UsesIdb(bk) => idbTx = Null

\* the store transaction completes: both records become visible
IdbCommit ==
    /\ idbTx # Null
    /\ idbFiles' = idbFiles \cup {idbTx.file}
    /\ idbMeta' = idbMeta \cup {idbTx.meta}
    /\ idbTx' = Null
    /\ UNCHANGED <<mgrVars, lsVars, ret, quotaVars, batchVars>>

\* the store transaction aborts at commit: neither record is kept
IdbAbort ==
    /\ idbTx # Null
    /\ idbTx' = Null
    /\ UNCHANGED <<idbFiles, idbMeta, mgrVars, lsVars, ret, quotaVars,
                   batchVars>>

----------------------------------------------------------------------------
(* Calls of the manager by the page *)

\* the page uses the manager once the init() it awaited has returned
PageReady == initPc["page"] = "done"

CallerCategory(file) ==
    IF IsImageType(file.type) THEN <<"MEDIA", "IMAGE">> ELSE <<"UNKNOWN", "UNKNOWN">>

CallerMetadata == [description |-> "memo"]

IoOutcomes == {"ok", "readFail", "deny1", "deny2"}

\* the compressor is consulted for large images only
Choices(file) ==
    [c : IF ProcessedFile(file, [kind |-> "error", size |-> 0])
             = ProcessedFile(file, [kind |-> "blob", size |-> 0])
          THEN {[kind |-> "null", size |-> 0]}
          ELSE CompressOutcomes(file),
     n : 1..MaxIds, io : IoOutcomes]

\* who uploads what
FileNamed(name) == CHOOSE f \in Files : f.name = name
Uploads == {<<"u1", FileNamed("c.png")>>, <<"u2", FileNamed("d.bin")>>,
            <<"u1", FileNamed("e.bin")>>}

\* the positions of the IndexedDB backends of the list
IdbPositions(bk) == {i \in DOMAIN bk : bk[i] = IDB}

\* the records the backends hold, the one of an open transaction included
RECURSIVE SumLen(_, _)
SumLen(map, keys) ==
    IF keys = {} THEN 0
    ELSE LET k == CHOOSE x \in keys : TRUE
         IN  Len(map[k]) + SumLen(map, keys \ {k})

NumRecords ==
    Cardinality(idbFiles) + (IF idbTx = Null THEN 0 ELSE 1)
    + SumLen(LsParse(lsFiles), DOMAIN LsParse(lsFiles))

\* storeFile of the manager, called while fewer than cap records are held
StoreFileCall(cap) ==
    /\ PageReady
    /\ NumRecords < cap
    /\ IdbReady(backends)
    /\ \E up \in Uploads :
       \E ch \in Choices(up[2]) :
          LET username == up[1]
              file == up[2]
              r == StoreFile(backends, Store, username, file,
                             CallerCategory(file), CallerMetadata, ch)
          IN  /\ lsFiles' = r.lsFiles
              /\ lsIndex' = r.lsIndex
              /\ UNCHANGED lsCalls
              /\ idbTx' = r.tx
              /\ ret' = [op |-> "store", username |-> username, file |-> file,
                         ok |-> r.ok, err |-> IF r.ok THEN "" ELSE r.err,
                         val |-> IF r.ok THEN r.val ELSE Null,
                         backend |-> r.backend, processed |-> r.processed]
    /\ UNCHANGED <<mgrVars, idbFiles, idbMeta, quotaVars, batchVars>>

MgrStoreFile == StoreFileCall(MaxRecords)

MgrGetUserFiles ==
    /\ PageReady
    /\ IdbReady(backends)
    /\ \E username \in Users, bad \in SUBSET IdbPositions(backends) :
          LET all == GetUserFiles(backends, Store, username, bad)
          IN  ret' = [op |-> "list", username |-> username, bad |-> bad,
                      ok |-> TRUE,
                      val |-> [i \in DOMAIN all |-> all[i].file],
                      src |-> [i \in DOMAIN all |-> all[i].from]]
    /\ UNCHANGED <<mgrVars, idbVars, lsVars, quotaVars, batchVars>>

\* getStorageStats(username): bad and badStats are the backends whose
\* getUserFiles and getStats reject during the call
MgrGetStorageStats ==
    /\ PageReady
    /\ IdbReady(backends)
    /\ \E username \in Users, bad \in SUBSET IdbPositions(backends),
          badStats \in SUBSET IdbPositions(backends) :
          ret' = [op |-> "stats", username |-> username, bad |-> bad,
                  badStats |-> badStats, ok |-> TRUE,
                  stats |-> GetStorageStats(backends, Store, username,
                                            bad, badStats)]
    /\ UNCHANGED <<mgrVars, idbVars, lsVars, quotaVars, batchVars>>

\* the queries of the model
Queries == {Chars(""), Chars("PNG"), Chars("n_u"), Chars("Mem")}

\* searchFiles(username, query); during the call the database answers on
\* every connection or on none
MgrSearchFiles ==
    /\ PageReady
    /\ IdbReady(backends)
    /\ \E username \in Users, query \in Queries,
          bad \in {{}, IdbPositions(backends)} :
          ret' = [op |-> "search", username |-> username, query |-> query,
                  bad |-> bad,
                  found |-> SearchFiles(backends, Store, username, query, bad)]
    /\ UNCHANGED <<mgrVars, idbVars, lsVars, quotaVars, batchVars>>

MgrGetFile ==
    /\ PageReady
    /\ IdbReady(backends)
    /\ \E fileId \in AllIds, bad \in SUBSET IdbPositions(backends) :
          LET r == GetFile(backends, Store, fileId, bad)
          IN  ret' = [op |-> "get", id |-> fileId, bad |-> bad, ok |-> r.ok,
                      err |-> IF r.ok THEN "" ELSE r.err,
                      val |-> IF r.ok THEN r.val ELSE Null,
                      from |-> r.from]
    /\ UNCHANGED <<mgrVars, idbVars, lsVars, quotaVars, batchVars>>

MgrDeleteFile ==
    /\ PageReady
    /\ IdbReady(backends)
    /\ \E fileId \in AllIds, bad \in SUBSET IdbPositions(backends) :
          LET r == DeleteFile(backends, Store, fileId, bad)
          IN  /\ idbFiles' = r.st.idbFiles
              /\ idbMeta' = r.st.idbMeta
              /\ lsFiles' = r.st.lsFiles
              /\ lsIndex' = r.st.lsIndex
              /\ UNCHANGED lsCalls
              /\ ret' = [op |-> "delete", id |-> fileId, bad |-> bad,
                         ok |-> TRUE, val |-> r.deleted]
    /\ UNCHANGED <<mgrVars, idbTx, quotaVars, batchVars>>

----------------------------------------------------------------------------
(* Admission control *)

\* what navigator.storage.estimate() can do: the API is missing, the call
\* throws, it reports usage and quota, or it reports an object without them
Estimates ==
    {[kind |-> "missing", usage |-> 0, quota |-> 0],
     [kind |-> "throws", usage |-> 0, quota |-> 0],
     [kind |-> "empty", usage |-> 0, quota |-> 0]}
    \cup {[kind |-> "ok", usage |-> u, quota |-> q] :
            u \in 0..MaxFileSize,
            q \in (safetyMargin - 1)..(safetyMargin + MaxFileSize + 1)}

\* a quota check that reports an empty quota when the host reports none
checkStorageQuota_ZeroWhenUnknown(estimate) ==
    [usage |-> estimate.usage, quota |-> estimate.quota,
     available |-> estimate.quota - estimate.usage,
     nan |-> estimate.kind = "empty"]

\* StorageManager.checkStorageQuota; nan tells that quota - usage is NaN
checkStorageQuota(estimate) ==
    IF estimate.kind \in {"missing", "throws"} THEN Null
    ELSE [usage |-> estimate.usage, quota |-> estimate.quota,
          available |-> estimate.quota - estimate.usage,
          nan |-> estimate.kind = "empty"]

\* an admission test that also refuses the size that fits exactly
canStoreFile_Exclusive(fileSize, quotaInfo) ==
    IF quotaInfo = Null THEN [canStore |-> TRUE, reason |-> ""]
    ELSE IF ~quotaInfo.nan /\ quotaInfo.available <= fileSize + safetyMargin
    THEN [canStore |-> FALSE, reason |-> "Insufficient storage"]
    ELSE [canStore |-> TRUE, reason |-> ""]

\* StorageManager.canStoreFile, given what checkStorageQuota returned
canStoreFile(fileSize, quotaInfo) ==
    IF quotaInfo = Null THEN [canStore |-> TRUE, reason |-> ""]
    ELSE LET requiredSpace == fileSize + safetyMargin
         IN  IF ~quotaInfo.nan /\ quotaInfo.available < requiredSpace
             THEN [canStore |-> FALSE, reason |-> "Insufficient storage"]
             ELSE [canStore |-> TRUE, reason |-> ""]

\* a call of canStoreFile by the page
MgrCanStoreFile ==
    /\ \E fileSize \in 0..MaxFileSize, estimate \in Estimates :
          /\ quota' = checkStorageQuota(estimate)
          /\ admit' = Spread([fileSize |-> fileSize, host |-> estimate.kind],
                             canStoreFile(fileSize, quota'))
    /\ UNCHANGED <<mgrVars, idbVars, lsVars, ret, batchVars>>

----------------------------------------------------------------------------
(* The upload batch of the page: processFiles and storeAndProcessFiles *)

BatchFiles ==
    { File("good.json", "application/json", 2, <<LBrace, RBrace>>),
      File("bad.json", "application/json", 1, <<LBrace>>),
      FileNamed("a.txt") }

Batches == UNION {[1..k -> BatchFiles] : k \in 1..MaxBatch}

\* the check boxes convertToSQL, convertToNoSQL and storeOriginal
Options ==
    {[convertToSQL |-> FALSE, convertToNoSQL |-> FALSE, storeOriginal |-> TRUE],
     [convertToSQL |-> TRUE, convertToNoSQL |-> FALSE, storeOriginal |-> TRUE],
     [convertToSQL |-> TRUE, convertToNoSQL |-> TRUE, storeOriginal |-> TRUE],
     [convertToSQL |-> FALSE, convertToNoSQL |-> TRUE, storeOriginal |-> FALSE]}

\* what the host reports when the batch asks: nothing, or a quota that just
\* fits or just fails the batch
BatchEstimates(totalSize) ==
    {[kind |-> "missing", usage |-> 0, quota |-> 0],
     [kind |-> "ok", usage |-> 0, quota |-> totalSize + safetyMargin],
     [kind |-> "ok", usage |-> 0, quota |-> totalSize + safetyMargin - 1]}

\* the branch of the loop body that calls processJsonFile
Converts(file, o) == IsJSON(file) /\ (o.convertToSQL \/ o.convertToNoSQL)

\* the entry the catch of the loop body pushes
Failure(file, error) == [success |-> FALSE, file |-> file, error |-> error]

ParseError == "Failed to parse JSON"

\* the notification of a processFiles call that finds the lock held
Busy == [op |-> "notify",
         text |-> "SYSTEM_IS_CURRENTLY_PROCESSING_DATA_PLEASE_WAIT"]

\* a processFiles that does not look at the lock
ProcessFiles_NoLock ==
    /\ PageReady
    /\ NumRecords < MaxRecords
    /\ \E files \in Batches, o \in Options :
          /\ isProcessing' = TRUE
          /\ batch' = files
          /\ opts' = o
          /\ bpos' = 1
          /\ results' = <<>>
          /\ bpc' = "admit"
          /\ jres' = Null
    /\ UNCHANGED <<mgrVars, idbVars, lsVars, ret, quotaVars>>

\* processFiles up to its first await; the analysis that follows only
\* renders.  A call made while the lock is held notifies and returns.
ProcessFiles ==
    /\ PageReady
    /\ NumRecords < MaxRecords
    /\ \E files \in Batches, o \in Options :
          IF isProcessing
          THEN /\ ret' = Busy
               /\ UNCHANGED batchVars
          ELSE /\ isProcessing' = TRUE
               /\ batch' = files
               /\ opts' = o
               /\ bpos' = 1
               /\ results' = <<>>
               /\ bpc' = "admit"
               /\ jres' = Null
               /\ UNCHANGED ret
    /\ UNCHANGED <<mgrVars, idbVars, lsVars, quotaVars>>

\* an admission check whose refusal returns with the lock still held
BatchAdmit_KeepLock ==
    /\ bpc = "admit"
    /\ \E estimate \in BatchEstimates(TotalSize(batch)) :
          LET totalSize == TotalSize(batch)
              canStore == canStoreFile(totalSize, checkStorageQuota(estimate))
          IN  /\ quota' = checkStorageQuota(estimate)
              /\ admit' = Spread([fileSize |-> totalSize,
                                  host |-> estimate.kind], canStore)
              /\ IF canStore.canStore
                 THEN /\ bpc' = "file"
                      /\ UNCHANGED results
                 ELSE /\ results' = [i \in DOMAIN batch |->
                                       Failure(batch[i], canStore.reason)]
                      /\ bpc' = "idle"
    /\ UNCHANGED <<batch, opts, bpos, jres, mgrVars, idbVars, lsVars, ret,
                   isProcessing>>

\* storeAndProcessFiles up to the loop: the admission check on the total
BatchAdmit ==
    /\ bpc = "admit"
    /\ \E estimate \in BatchEstimates(TotalSize(batch)) :
          LET totalSize == TotalSize(batch)
              canStore == canStoreFile(totalSize, checkStorageQuota(estimate))
          IN  /\ quota' = checkStorageQuota(estimate)
              /\ admit' = Spread([fileSize |-> totalSize,
                                  host |-> estimate.kind], canStore)
              /\ IF canStore.canStore
                 THEN /\ bpc' = "file"
                      /\ UNCHANGED <<results, isProcessing>>
                 ELSE /\ results' = [i \in DOMAIN batch |->
                                       Failure(batch[i], canStore.reason)]
                      /\ isProcessing' = FALSE
                      /\ bpc' = "idle"
    /\ UNCHANGED <<batch, opts, bpos, jres, mgrVars, idbVars, lsVars, ret>>

\* the loop body for a file stored as it is: dataProcessor.storeFile
BatchStoreFile ==
    /\ bpc = "file"
    /\ bpos <= Len(batch)
    /\ ~Converts(batch[bpos], opts)
    /\ IdbReady(backends)
    /\ \E ch \in Choices(batch[bpos]) :
          LET file == batch[bpos]
              r == ProcessorStoreFile(backends, Store, file,
                      [description |-> "memo", uploadedAt |-> Now], ch)
          IN  /\ lsFiles' = r.lsFiles
              /\ lsIndex' = r.lsIndex
              /\ UNCHANGED lsCalls
              /\ idbTx' = r.tx
              /\ results' = Append(results,
                               IF r.ok THEN [success |-> TRUE, file |-> r.val]
                               ELSE Failure(file, r.err))
    /\ bpos' = bpos + 1
    /\ UNCHANGED <<batch, opts, isProcessing, bpc, jres, mgrVars, idbFiles,
                   idbMeta, ret, quotaVars>>

\* the loop body for a JSON file with a conversion asked for: processJsonFile
\* up to the end of readJsonFile
BatchReadJson ==
    /\ bpc = "file"
    /\ bpos <= Len(batch)
    /\ Converts(batch[bpos], opts)
    /\ IF JSONParse(batch[bpos].bytes).ok
       THEN /\ jres' = [original |-> Null, sql |-> Null, nosql |-> Null,
                        preview |-> FALSE, todo |-> JsonPhases(opts)]
            /\ bpc' = "json"
            /\ UNCHANGED <<results, bpos>>
       ELSE /\ results' = Append(results, Failure(batch[bpos], ParseError))
            /\ bpos' = bpos + 1
            /\ UNCHANGED <<bpc, jres>>
    /\ UNCHANGED <<batch, opts, isProcessing, mgrVars, idbVars, lsVars, ret,
                   quotaVars>>

\* the next store of processJsonFile; after the last one the loop body
\* pushes the entries, a store that throws ends the call with one failure
BatchJsonStore ==
    /\ bpc = "json"
    /\ IdbReady(backends)
    /\ \E ch \in Choices(batch[bpos]) :
          LET file == batch[bpos]
              phase == Head(jres.todo)
              r == JsonPhaseStore(backends, Store, phase, file, jres, ch)
              j == [k \in DOMAIN jres |->
                      IF k = phase THEN r.val
                      ELSE IF k = "todo" THEN Tail(jres.todo)
                      ELSE IF k = "preview" THEN JsonPreview(opts, Tail(jres.todo))
                      ELSE jres[k]]
          IN  /\ lsFiles' = r.lsFiles
              /\ lsIndex' = r.lsIndex
              /\ UNCHANGED lsCalls
              /\ idbTx' = r.tx
              /\ IF ~r.ok THEN
                    /\ results' = Append(results, Failure(file, r.err))
                    /\ bpos' = bpos + 1
                    /\ bpc' = "file"
                    /\ jres' = Null
                 ELSE IF j.todo = <<>> THEN
                    /\ results' = results \o JsonResults(j)
                    /\ bpos' = bpos + 1
                    /\ bpc' = "file"
                    /\ jres' = j
                 ELSE
                    /\ jres' = j
                    /\ UNCHANGED <<results, bpos, bpc>>
    /\ UNCHANGED <<batch, opts, isProcessing, mgrVars, idbFiles, idbMeta, ret,
                   quotaVars>>

\* the loop is over: the first timer is set
BatchLoopEnd ==
    /\ bpc = "file"
    /\ bpos > Len(batch)
    /\ bpc' = "timer1"
    /\ UNCHANGED <<batch, opts, bpos, results, isProcessing, jres, mgrVars,
                   idbVars, lsVars, ret, quotaVars>>

\* the first timer fires and sets the second
BatchTimer1 ==
    /\ bpc = "timer1"
    /\ bpc' = "timer2"
    /\ UNCHANGED <<batch, opts, bpos, results, isProcessing, jres, mgrVars,
                   idbVars, lsVars, ret, quotaVars>>

\* a second timer that shows the results and keeps the lock
BatchTimer2_KeepLock ==
    /\ bpc = "timer2"
    /\ bpc' = "idle"
    /\ UNCHANGED <<batch, opts, bpos, results, isProcessing, jres, mgrVars,
                   idbVars, lsVars, ret, quotaVars>>

\* the second timer fires: the lock is released and the results are shown
BatchTimer2 ==
    /\ bpc = "timer2"
    /\ bpc' = "idle"
    /\ isProcessing' = FALSE
    /\ UNCHANGED <<batch, opts, bpos, results, jres, mgrVars, idbVars, lsVars,
                   ret, quotaVars>>

----------------------------------------------------------------------------
NoRet == [op |-> "none"]

Init ==
    /\ supIDB \in BOOLEAN
    /\ supLS \in BOOLEAN
    /\ backends = <<>>
    /\ currentBackend = Undefined
    /\ initPc = [i \in InitTasks |-> IF i = "constructor" THEN "persist" ELSE "idle"]
    /\ idbFiles = {}
    /\ idbMeta = {}
    /\ idbTx = Null
    /\ lsFiles = Absent
    /\ lsIndex = Absent
    /\ lsCalls = <<>>
    /\ ret = NoRet
    /\ quota = Null
    /\ admit = Null
    /\ batch = <<>>
    /\ opts = Null
    /\ bpos = 0
    /\ results = <<>>
    /\ isProcessing = FALSE
    /\ bpc = "idle"
    /\ jres = Null

Next ==
    \/ \E i \in InitTasks : InitCall(i)
    \/ \E i \in InitTasks : InitAfterPersist(i)
    \/ \E i \in InitTasks : InitIdbOpened(i)
    \/ \E i \in InitTasks : InitIdbFailed(i)
    \/ \E i \in InitTasks : InitLsDone(i)
    \/ IdbCommit
    \/ IdbAbort
    \/ MgrStoreFile
    \/ MgrGetUserFiles
    \/ MgrGetFile
    \/ MgrDeleteFile

Spec == Init /\ [][Next]_vars

----------------------------------------------------------------------------
(* What the persisted state holds, read off the state itself *)

\* the ids of the records the files list of localStorage holds for a user
LsListedIds(st, username) ==
    LET f0 == LsParse(st.lsFiles)
    IN  IF username \in DOMAIN f0
        THEN {f0[username][k].id : k \in DOMAIN f0[username]} ELSE {}

LsListed(st, fileId) ==
    \E u \in DOMAIN LsParse(st.lsFiles) : fileId \in LsListedIds(st, u)
LsIndexed(st, fileId) == fileId \in DOMAIN LsParse(st.lsIndex)
IdbHolds(st, fileId) == HasKey(st.idbFiles, fileId) \/ HasKey(st.idbMeta, fileId)

\* some backend holds a record with the id
Held(st, fileId) ==
    IdbHolds(st, fileId) \/ LsListed(st, fileId) \/ LsIndexed(st, fileId)

\* the backend with tag b can hand out the file: localStorage needs the index
\* entry and the record in the list of the indexed user
Retrievable(b, st, fileId) ==
    IF b = IDB THEN HasKey(st.idbFiles, fileId) /\ HasKey(st.idbMeta, fileId)
    ELSE /\ LsIndexed(st, fileId)
         /\ fileId \in LsListedIds(st, LsParse(st.lsIndex)[fileId].username)

\* the ids backend b lists for a user
ListedIds(b, st, username) ==
    IF b = IDB THEN {r.id : r \in {m \in st.idbMeta : m.username = username}}
    ELSE LsListedIds(st, username)

Min(S) == CHOOSE x \in S : \A y \in S : x <= y

\* the original size a getFile result carries: IndexedDB spreads the metadata
\* into the result, localStorage keeps it under metadata
OriginalSizeOf(val) ==
    IF "metadata" \in DOMAIN val THEN val.metadata.originalSize
    ELSE val.originalSize

----------------------------------------------------------------------------
(* Claims *)

\* C1: a file stored through storeFile and then fetched with getFile by the
\* returned id comes back with the stored payload, byte for byte; when the
\* image was compressed the payload is the compressed one and the original
\* size is kept in the metadata.
C1_RoundTrip ==
    [][(/\ ret.op = "store" /\ ret.ok
        /\ MgrGetFile /\ ret'.id = ret.val.id /\ ret'.bad = {})
       => (/\ ret'.ok
           /\ ret'.val.blob.bytes = ret.processed.bytes
           /\ OriginalSizeOf(ret'.val) = ret.file.size)]_vars

\* C2: after deleteFile(id) returns no backend holds a record with that id,
\* and a getFile(id) that follows fails with NotFound.
C2_DeleteThenNotFound ==
    [][/\ MgrDeleteFile => ~Held(Store', ret'.id)
       /\ (ret.op = "delete" /\ MgrGetFile /\ ret'.id = ret.id)
          => (~ret'.ok /\ ret'.err = "NotFound")]_vars

\* C3: a storeFile that fails leaves the persisted state of the backends as
\* it was before the call.
C3_FailedStoreLeavesNothing ==
    [][(MgrStoreFile /\ ~ret'.ok)
       => (/\ lsFiles' = lsFiles /\ lsIndex' = lsIndex
           /\ idbFiles' = idbFiles /\ idbMeta' = idbMeta /\ idbTx' = Null)]_vars

\* C4: deleteFile of an id that no backend holds never reports success.
C4_DeleteAbsentNotFound ==
    [][(MgrDeleteFile /\ ~Held(Store, ret'.id)) => ret'.val = FALSE]_vars

\* C5: getUserFiles returns every id that an answering backend lists for the
\* user exactly once, each taken from the earliest backend that lists it.
C5_ListedOnce ==
    [][(ret'.op = "list" /\ ret' # ret /\ MgrGetUserFiles) =>
        LET val == ret'.val
            src == ret'.src
            live == (DOMAIN backends) \ ret'.bad
            Lists(b, id) == id \in ListedIds(backends[b], Store, ret'.username)
        IN  /\ \A i, j \in DOMAIN val : i # j => val[i].id # val[j].id
            /\ {val[i].id : i \in DOMAIN val}
                 = UNION {ListedIds(backends[b], Store, ret'.username) : b \in live}
            /\ \A i \in DOMAIN val :
                 src[i] = Min({b \in live : Lists(b, val[i].id)})]_vars

\* C5 witness: a listing of a file that two answering backends of the list hold
C5_Witness ==
    /\ ret.op = "list" /\ Len(ret.val) >= 1
    /\ \E b1, b2 \in (DOMAIN backends) \ ret.bad :
         /\ b1 # b2
         /\ ret.val[1].id \in ListedIds(backends[b1], Store, ret.username)
         /\ ret.val[1].id \in ListedIds(backends[b2], Store, ret.username)

\* C6: the IndexedDB backend is selected whenever it is registered, and the
\* localStorage backend is never selected for a file over its per-file cap.
C6_SelectionRule ==
    \A file \in Files :
        /\ IDB \in Range(backends) => selectBackendForFile(backends, file) = IDB
        /\ selectBackendForFile(backends, file) = LS => file.size <= LsMaxFileSize

\* C7: an initialisation that failed to open IndexedDB has still registered
\* the localStorage backend when the host supports it.
C7_SkipFailedBackend ==
    \A i \in InitTasks : (initPc[i] = "failed" /\ supLS) => LS \in Range(backends)

\* C9: getFile returns the file of the first backend, in list order, that
\* answers and can hand it out; when there is none it fails with NotFound
\* and returns nothing.
C9_FirstHit ==
    [][(ret'.op = "get" /\ ret' # ret /\ MgrGetFile) =>
        LET holders == {b \in (DOMAIN backends) \ ret'.bad :
                           Retrievable(backends[b], Store, ret'.id)}
        IN  IF holders = {}
            THEN ~ret'.ok /\ ret'.err = "NotFound" /\ ret'.val = Null
            ELSE /\ ret'.ok /\ ret'.from = Min(holders)
                 /\ ret'.val.id = ret'.id
                 /\ "blob" \in DOMAIN ret'.val]_vars

\* C9 witness: a hit served by the first backend that holds the file, while
\* a later backend of the list could serve it too
C9_Witness ==
    /\ ret.op = "get" /\ ret.ok
    /\ \E b \in DOMAIN backends :
          b > ret.from /\ Retrievable(backends[b], Store, ret.id)

\* C12: a store that reaches the localStorage backend with a file over the
\* 5 MiB cap is refused for its size, whatever the host would have done with
\* the read or the writes, and leaves both keys as they were; a file of
\* exactly the cap is not refused for its size.
C12_OverCapRefused ==
    [][(/\ ret'.op = "store" /\ ret'.backend = LS
        /\ (ret' # ret \/ lsFiles' # lsFiles)
        /\ MgrStoreFile)
       => IF ret'.processed.size > 5 * 1024 * 1024
          THEN /\ ~ret'.ok /\ ret'.err = "TooLarge"
               /\ lsFiles' = lsFiles /\ lsIndex' = lsIndex
          ELSE ret'.err # "TooLarge"]_vars

\* C12 witness: an over-cap file refused by the localStorage backend
C12_Witness ==
    /\ ret.op = "store" /\ ret.backend = LS
    /\ ret.processed.size = 5 * 1024 * 1024 + 1
    /\ ~ret.ok /\ ret.err = "TooLarge"

C18_InitKeepsFiles ==
    [][initPc' # initPc =>
        /\ idbFiles' = idbFiles /\ idbMeta' = idbMeta
        /\ lsFiles # Absent => lsFiles' = lsFiles
        /\ lsIndex # Absent => lsIndex' = lsIndex
        /\ \A b \in {IDB, LS} :
              /\ \A username \in Users :
                    BackendUserFiles(b, Store', username)
                       = BackendUserFiles(b, Store, username)
              /\ \A fileId \in AllIds :
                    BackendGetFile(b, Store, fileId).ok
                       => BackendGetFile(b, Store', fileId)
                             = BackendGetFile(b, Store, fileId)]_vars

\* C18 witness: the init() of the constructor has run the init() of the
\* localStorage backend, after the page's, and the backend lists a file
C18_Witness ==
    /\ initPc["page"] = "done" /\ initPc["constructor"] = "lsInit"
    /\ \E username \in Users : BackendUserFiles(LS, Store, username) # <<>>
    /\ \E fileId \in LsIds : BackendGetFile(LS, Store, fileId).ok

\* C21: a storeFile of the manager writes to the one backend it selected:
\* a store handed to IndexedDB leaves both localStorage keys as they were, a
\* store handed to localStorage opens no IndexedDB transaction; a store that
\* succeeds has written to its backend, and a store that IndexedDB refuses
\* fails for the caller with nothing written anywhere.
C21_OneBackend ==
    [][(/\ ret'.op = "store"
        /\ (ret' # ret \/ idbTx' # idbTx \/ lsFiles' # lsFiles)
        /\ initPc' = initPc /\ ~(idbTx # Null /\ idbTx' = Null))
       => /\ idbFiles' = idbFiles /\ idbMeta' = idbMeta
          /\ ret'.backend = IDB => (lsFiles' = lsFiles /\ lsIndex' = lsIndex)
          /\ ret'.backend = LS => idbTx' = Null
          /\ ret'.ok => \/ ret'.backend = IDB /\ idbTx' # Null
                        \/ ret'.backend = LS /\ lsFiles' # lsFiles
          /\ (~ret'.ok /\ ret'.backend # LS)
                => (/\ idbTx' = Null
                    /\ lsFiles' = lsFiles /\ lsIndex' = lsIndex
                    /\ ret'.err # "")]_vars

\* C21 witness: IndexedDB refused the write while a localStorage backend was
\* registered, and nothing was written to it
C21_Witness ==
    /\ ret.op = "store" /\ ~ret.ok /\ ret.backend = IDB
    /\ ret.err = "QuotaExceeded"
    /\ LS \in Range(backends)
    /\ LsParse(lsFiles) = EmptyMap /\ LsParse(lsIndex) = EmptyMap

----------------------------------------------------------------------------
(* The fan-out reads of the manager over what the stores left *)

NextStats ==
    \/ \E i \in InitTasks : InitCall(i)
    \/ \E i \in InitTasks : InitAfterPersist(i)
    \/ \E i \in InitTasks : InitIdbOpened(i)
    \/ \E i \in InitTasks : InitIdbFailed(i)
    \/ \E i \in InitTasks : InitLsDone(i)
    \/ IdbCommit
    \/ IdbAbort
    \/ MgrStoreFile
    \/ MgrGetUserFiles
    \/ MgrGetStorageStats

SpecStats == Init /\ [][NextStats]_vars

\* C14: a getUserFiles or getStorageStats of the manager returns whatever
\* backends reject during the call: the list holds the files of every
\* backend whose getUserFiles answered, and the stats hold, in list order,
\* the stats of every backend whose getStats answered.  (Both calls only
\* set ret, so a step that changes ret to their result is a step of theirs.)
C14_FanOutIsolated ==
    [][/\ (ret'.op = "list" /\ ret' # ret) =>
            /\ ret'.ok
            /\ \A b \in (DOMAIN backends) \ ret'.bad :
                  ListedIds(backends[b], Store, ret'.username)
                     \subseteq {ret'.val[i].id : i \in DOMAIN ret'.val}
       /\ (ret'.op = "stats" /\ ret' # ret) =>
            LET live == (DOMAIN backends) \ ret'.badStats
                stats == ret'.stats.backends
                \* the place of backend b among those that answered
                Place(b) == Cardinality({c \in live : c <= b})
            IN  /\ ret'.ok
                /\ Len(stats) = Cardinality(live)
                /\ \A b \in live :
                      /\ stats[Place(b)].type = backends[b]
                      /\ stats[Place(b)].fileCount
                           = Len(BackendUserFiles(backends[b], Store,
                                                  ret'.username))
                /\ ret'.stats.fileCount
                     = Cardinality(UNION {ListedIds(backends[b], Store,
                                                    ret'.username) :
                                          b \in (DOMAIN backends) \ ret'.bad})]_vars

\* C14 witness: stats asked while the getStats of the first backend rejects
\* and a later backend that answers holds a file of the user
C14_Witness ==
    /\ ret.op = "stats" /\ 1 \in ret.badStats
    /\ \E k \in DOMAIN ret.stats.backends :
          ret.stats.backends[k].fileCount = 1

----------------------------------------------------------------------------
(* Admission control on its own *)

InitQuota == Init /\ supIDB /\ supLS

NextQuota == MgrCanStoreFile

SpecQuota == InitQuota /\ [][NextQuota]_vars

\* C10: with the quota reported, canStoreFile refuses exactly when the size
\* plus the 10 MiB margin exceeds the available bytes; a size that fits
\* exactly is admitted.
C10_AdmitBoundary ==
    (admit # Null /\ quota # Null /\ ~quota.nan)
    => (admit.canStore = ~(admit.fileSize + 10 * 1024 * 1024 > quota.available))

\* C10 witness: the size plus the margin is exactly what is available
C10_Witness ==
    /\ admit # Null /\ quota # Null /\ ~quota.nan
    /\ admit.fileSize + 10 * 1024 * 1024 = quota.available
    /\ admit.canStore

\* C11: when the host has no estimate API, or its call throws, canStoreFile
\* returns and admits the candidate, whatever its size.
C11_FailsSoft ==
    (admit # Null /\ admit.host \in {"missing", "throws"})
    => (admit.canStore /\ quota = Null)

\* C11 witness: the largest candidate admitted after estimate() threw
C11_Witness ==
    /\ admit # Null /\ admit.host = "throws"
    /\ admit.fileSize = MaxFileSize /\ admit.canStore

----------------------------------------------------------------------------
(* The upload batch over the manager *)

NextBatch ==
    \/ \E i \in InitTasks : InitCall(i)
    \/ \E i \in InitTasks : InitAfterPersist(i)
    \/ \E i \in InitTasks : InitIdbOpened(i)
    \/ \E i \in InitTasks : InitIdbFailed(i)
    \/ \E i \in InitTasks : InitLsDone(i)
    \/ IdbCommit
    \/ IdbAbort
    \/ ProcessFiles
    \/ BatchAdmit
    \/ BatchStoreFile
    \/ BatchReadJson
    \/ BatchJsonStore
    \/ BatchLoopEnd
    \/ BatchTimer1
    \/ BatchTimer2

SpecBatch == Init /\ [][NextBatch]_vars

\* the errors a store of the manager can end with
StoreErrors == {"TypeError", "ReadError", "ConstraintError", "QuotaExceeded",
                "TooLarge"}

\* C8: when the loop has dealt with a file whose content does not parse as
\* JSON, conversion asked for or not and the original to be kept, the entry
\* pushed for it is the stored original, or the failure of the store itself;
\* and the batch goes on.
C8_MalformedStillStored ==
    [][(/\ bpc = "file" /\ bpos <= Len(batch) /\ bpos' = bpos + 1
        /\ IsJSON(batch[bpos]) /\ ~JSONParse(batch[bpos].bytes).ok
        /\ opts.storeOriginal)
       => LET e == results'[Len(results')]
          IN  /\ Len(results') = Len(results) + 1
              /\ bpc' = "file"
              /\ IF e.success
                 THEN e.file.filename = batch[bpos].name
                 ELSE e.error \in StoreErrors]_vars

\* C8 without a conversion: the malformed file is stored as it is
C8_Witness ==
    /\ bpc = "file" /\ bpos > 1
    /\ ~opts.convertToSQL /\ ~opts.convertToNoSQL
    /\ ~JSONParse(batch[bpos - 1].bytes).ok /\ IsJSON(batch[bpos - 1])
    /\ results[Len(results)].success
    /\ results[Len(results)].file.filename = "bad.json"

\* C13: a store of the batch that runs out of space at write time, after the
\* admission check let the batch in, ends as a failed entry for that file:
\* when the store rejects, the entry pushed is the failure of the file at
\* hand and the loop moves on to the next file; when the transaction of the
\* store aborts at commit, no entry reports the aborted record as stored.
C13_CapacityFailureSurfaced ==
    [][/\ (/\ Len(results') = Len(results) + 1
           /\ bpc \in {"file", "json"}
           /\ ~results'[Len(results')].success
           /\ results'[Len(results')].error = "QuotaExceeded")
          => (/\ admit.canStore
              /\ results'[Len(results')].file = batch[bpos]
              /\ bpos' = bpos + 1 /\ bpc' = "file")
       /\ IdbAbort
          => \A k \in DOMAIN results :
                results[k].success => results[k].file.id # idbTx.file.id]_vars

\* C13, the store that rejects: the first file of a batch of two failed for
\* lack of space and the second was stored
C13_Witness ==
    /\ Len(batch) = 2 /\ Len(results) = 2 /\ admit # Null /\ admit.canStore
    /\ ~results[1].success /\ results[1].error = "QuotaExceeded"
    /\ results[2].success

\* C15: at every state no two records of a backend carry the same id, the id
\* generator being free to return a value already in use, and no id of a
\* localStorage record is the id of an IndexedDB record.
C15_DistinctIds ==
    LET f0 == LsParse(lsFiles)
        lsRecords == {<<u, k>> : u \in Users, k \in 1..(2 * MaxBatch + MaxRecords)}
        InList(p) == p[1] \in DOMAIN f0 /\ p[2] \in DOMAIN f0[p[1]]
    IN  /\ \A p, q \in {x \in lsRecords : InList(x)} :
              p # q => f0[p[1]][p[2]].id # f0[q[1]][q[2]].id
        /\ \A r1, r2 \in idbFiles : r1 # r2 => r1.id # r2.id
        /\ \A r1, r2 \in idbMeta : r1 # r2 => r1.id # r2.id
        /\ \A p \in {x \in lsRecords : InList(x)}, r \in idbFiles :
              f0[p[1]][p[2]].id # r.id

\* C17: in every state, each summary that getUserFiles of a registered
\* backend returns carries the filename, the file type and the size of the
\* record that getFile of the backend returns for the id of the summary.
C17_SummaryMatchesRecord ==
    \A b \in DOMAIN backends, username \in Users :
       LET files == BackendUserFiles(backends[b], Store, username)
       IN  \A i \in DOMAIN files :
              LET r == BackendGetFile(backends[b], Store, files[i].id)
              IN  r.ok => /\ files[i].filename = r.val.filename
                          /\ files[i].filetype = r.val.filetype
                          /\ files[i].size = r.val.size

----------------------------------------------------------------------------
(* The classifier on its own: detectFileType over names and MIME types *)

ClassifyNames ==
    {"a.txt", "b.png", "d.bin", "good.json", "REPORT.PDF", "dump.sql",
     "x.tar.gz", "clip.mp4", "notes", "json", "x.constructor"}
ClassifyTypes ==
    {"", "image/png", "image/jpeg", "application/json", "text/plain",
     "application/pdf"}

\* detectFileType(file) for a file the page hands over
Classify ==
    /\ \E name \in ClassifyNames, type \in ClassifyTypes :
          LET file == File(name, type, 1, <<0>>)
          IN  ret' = [op |-> "classify", file |-> file,
                      fileType |-> detectFileType(file)]
    /\ UNCHANGED <<mgrVars, idbVars, lsVars, quotaVars, batchVars>>

NextClassify == Classify

SpecClassify == Init /\ [][NextClassify]_vars

MainTypes == {"media", "json", "database", "document", "archive", "unknown"}

\* C19: detectFileType answers by the first rule that matches: a MIME type
\* of the media table gives media with confidence 95; otherwise the MIME type
\* application/json or a name ending in .json gives json/unknown/90;
\* otherwise the row of the extension table, when the last part of the name
\* has one; otherwise unknown/unknown/50.  The mainType returned is one of
\* the six main types.
C19_FirstMatch ==
    ret.op = "classify" =>
       LET file == ret.file
           r == ret.fileType
           Is(m, s, c) == /\ "mainType" \in DOMAIN r
                          /\ r.mainType = m /\ r.subType = s
                          /\ r.confidence = c
       IN  /\ "mainType" \in DOMAIN r /\ r.mainType \in MainTypes
           /\ IF mediaTypes(file.type) # ""
              THEN Is("media", mediaTypes(file.type), 95)
              ELSE IF file.type = "application/json"
                      \/ EndsWithDotJson(file.name)
              THEN Is("json", "unknown", 90)
              ELSE IF Extension(file.name) \in DOMAIN extensionMap
              THEN r = extensionMap[Extension(file.name)]
              ELSE Is("unknown", "unknown", 50)

----------------------------------------------------------------------------
(* Search over the files of a user, with room for two of them *)

MaxListed == 2

MgrStoreFileListed == StoreFileCall(MaxListed)

NextSearch ==
    \/ \E i \in InitTasks : InitCall(i)
    \/ \E i \in InitTasks : InitAfterPersist(i)
    \/ \E i \in InitTasks : InitIdbOpened(i)
    \/ \E i \in InitTasks : InitIdbFailed(i)
    \/ \E i \in InitTasks : InitLsDone(i)
    \/ IdbCommit
    \/ MgrStoreFileListed
    \/ MgrSearchFiles

SpecSearch == Init /\ [][NextSearch]_vars

\* the query occurs in the text when case is ignored
ContainsIgnoringCase(chars, query) ==
    \E i \in 0..(Len(chars) - Len(query)) :
       \A j \in 1..Len(query) :
          LowerOf[chars[i + j]] = LowerOf[query[j]]

\* C20: searchFiles returns the files of the getUserFiles list, each once
\* and in the order of the list, whose filename, category or description
\* contains the query when case is ignored; the empty query returns the list.
\* (searchFiles only sets ret, so a step that changes ret to its result is a
\* step of searchFiles.)
C20_SearchIsFilter ==
    [][(ret'.op = "search" /\ ret' # ret) =>
        LET found == ret'.found
            Hit(file) ==
                \/ ContainsIgnoringCase(Chars(file.filename), ret'.query)
                \/ ContainsIgnoringCase(CategoryChars(file.category),
                                        ret'.query)
                \/ /\ "description" \in DOMAIN file.metadata
                   /\ ContainsIgnoringCase(Chars(file.metadata.description),
                                           ret'.query)
            \* the place in the list of the k-th of the hits
            Place(hits, k) == CHOOSE i \in hits :
                                 Cardinality({h \in hits : h <= i}) = k
        IN  \A all \in {GetUserFiles(backends, Store, ret'.username, ret'.bad)} :
            \A list \in {[i \in DOMAIN all |-> all[i].file]} :
            \A hits \in {{i \in DOMAIN list : Hit(list[i])}} :
               /\ Len(found) = Cardinality(hits)
               /\ \A k \in DOMAIN found : found[k] = list[Place(hits, k)]
               /\ ret'.query = <<>> => found = list]_vars

\* C20 witness: a search over a list of two files that finds the second only
C20_Witness ==
    /\ ret.op = "search" /\ ret.bad = {} /\ ret.query # <<>>
    /\ Len(GetUserFiles(backends, Store, ret.username, {})) = 2
    /\ Len(ret.found) = 1
    /\ ret.found[1] = GetUserFiles(backends, Store, ret.username, {})[2].file

\* C22: while the lock is held the files of the running batch and its
\* options stay as they are and its results only grow; a processFiles call
\* that finds the lock held notifies the user and changes nothing else; and
\* the lock is taken only when no batch is running.
C22_OneBatch ==
    [][/\ isProcessing =>
            /\ batch' = batch /\ opts' = opts
            /\ Len(results') >= Len(results)
            /\ SubSeq(results', 1, Len(results)) = results
       /\ (ret' = Busy /\ ret' # ret) =>
            /\ isProcessing
            /\ UNCHANGED <<batchVars, idbVars, lsVars, mgrVars>>
       /\ (~isProcessing /\ isProcessing') => bpc = "idle"]_vars

\* C22 witness: a call was turned away while a batch of two was at its second
\* file, and the result of the first is still there
C22_Witness ==
    /\ ret = Busy /\ isProcessing
    /\ bpc = "file" /\ bpos = 2 /\ Len(batch) = 2 /\ Len(results) >= 1

----------------------------------------------------------------------------
(* The batch with its awaited operations settling: every step of the      *)
(* running batch is taken in the end, each timer fires, and a transaction *)
(* of IndexedDB completes or aborts.                                      *)

\* the steps of a batch that wait for no store: the admission check, the
\* read of a JSON file, the end of the loop and the two timers
BatchStep ==
    \/ BatchAdmit
    \/ BatchReadJson
    \/ BatchLoopEnd
    \/ BatchTimer1
    \/ BatchTimer2

\* the loop body awaits a store that no open transaction holds back
StorePending ==
    /\ \/ bpc = "file" /\ bpos <= Len(batch) /\ ~Converts(batch[bpos], opts)
       \/ bpc = "json"
    /\ IdbReady(backends)

\* the awaited store settles, resolved or rejected: the steps of
\* BatchStoreFile and BatchJsonStore, told by what they move
StoreSettles ==
    /\ StorePending
    /\ \/ bpos' = bpos + 1
       \/ bpos' = bpos /\ jres' # jres

\* weak fairness of the store steps, their enabling condition written out
StoresSettle == <>[]StorePending => []<><<StoreSettles>>_vars

\* what one initializeBackends call has pushed when it is over
Pushed(idb, ls) ==
    (IF idb THEN <<IDB>> ELSE <<>>) \o (IF ls THEN <<LS>> ELSE <<>>)

\* the page after its load: the init() of the constructor is over (with the
\* database opened, or failed at its open) and so is the awaited one
InitLoaded ==
    /\ supIDB \in BOOLEAN
    /\ supLS \in BOOLEAN
    /\ \E opened \in {TRUE, ~supIDB} :
          /\ backends = (IF opened THEN Pushed(supIDB, supLS) ELSE <<>>)
                           \o Pushed(supIDB, supLS)
          /\ initPc = [i \in InitTasks |->
                         IF i = "constructor" /\ ~opened THEN "failed" ELSE "done"]
    /\ currentBackend = IF backends = <<>> THEN Undefined ELSE backends[1]
    /\ idbFiles = {}
    /\ idbMeta = {}
    /\ idbTx = Null
    /\ lsFiles = IF supLS THEN LsInitFiles(Absent) ELSE Absent
    /\ lsIndex = IF supLS THEN LsInitIndex(Absent) ELSE Absent
    /\ lsCalls = <<>>
    /\ ret = NoRet
    /\ quota = Null
    /\ admit = Null
    /\ batch = <<>>
    /\ opts = Null
    /\ bpos = 0
    /\ results = <<>>
    /\ isProcessing = FALSE
    /\ bpc = "idle"
    /\ jres = Null

NextBatchLive ==
    \/ IdbCommit
    \/ IdbAbort
    \/ ProcessFiles
    \/ BatchStep
    \/ BatchStoreFile
    \/ BatchJsonStore

SpecBatchLive ==
    /\ InitLoaded
    /\ [][NextBatchLive]_vars
    /\ WF_vars(BatchStep)
    /\ StoresSettle
    /\ WF_vars(IdbCommit \/ IdbAbort)

\* StoreSettles names the store steps of the loop body and nothing else
StoreSettlesIsStore ==
    [][StoreSettles <=> (BatchStoreFile \/ BatchJsonStore)]_vars

----------------------------------------------------------------------------
\* C24: a batch whose total is refused at the admission check stores
\* nothing, gets one failed result per file with the reason of the refusal,
\* and leaves the lock released when storeAndProcessFiles returns.
C24_RefusedBatch ==
    [][(bpc = "admit" /\ bpc' # "admit" /\ ~admit'.canStore)
       => /\ UNCHANGED <<idbVars, lsVars>>
          /\ admit'.fileSize = TotalSize(batch)
          /\ admit'.reason = "Insufficient storage"
          /\ Len(results') = Len(batch)
          /\ \A i \in DOMAIN batch :
                results'[i] = [success |-> FALSE, file |-> batch[i],
                               error |-> admit'.reason]
          /\ ~isProcessing'
          /\ bpc' = "idle"]_vars

\* C24 witness: a batch of two refused, nothing stored
C24_Witness ==
    /\ bpc = "idle" /\ admit # Null /\ ~admit.canStore
    /\ Len(batch) = 2 /\ Len(results) = 2 /\ ~isProcessing
    /\ \A i \in 1..2 : ~results[i].success
    /\ NumRecords = 0

----------------------------------------------------------------------------
\* the names of the records a backend holds whole: both records of
\* IndexedDB, the list entry and the index entry of localStorage
StoredNames ==
    {r.filename : r \in {x \in idbFiles : HasKey(idbMeta, x.id)}}
    \cup UNION {{LsParse(lsFiles)[u][k].filename :
                   k \in {n \in DOMAIN LsParse(lsFiles)[u] :
                            LsIndexed(Store, LsParse(lsFiles)[u][n].id)}} :
                u \in DOMAIN LsParse(lsFiles)}

\* the names processJsonFile and storeFile store a file of the batch under
DerivedNames(file) ==
    {file.name, ConvertedName(file.name, "sql"), ConvertedName(file.name, "nosql")}

\* C25: a file the results report as failed has left no record in any
\* backend, neither the original nor a conversion (files whose name occurs
\* once in the batch, so that a record is told from its name).
C25_FailedLeavesNothing ==
    \A i \in DOMAIN results :
       (/\ ~results[i].success
        /\ Cardinality({k \in DOMAIN batch :
                          batch[k].name = results[i].file.name}) = 1)
       => StoredNames \cap DerivedNames(results[i].file) = {}

----------------------------------------------------------------------------
\* C26: IndexedDBBackend.storeFile resolves only once the transaction with
\* both records has committed: no transaction aborts after its store has
\* resolved, and a getFile of the id a resolved store returned, asked of
\* backends that answer, finds the record in IndexedDB.
C26_ResolvedIsCommitted ==
    [][/\ IdbAbort
          => ~(ret.op = "store" /\ ret.ok /\ ret.val.id = idbTx.file.id)
       /\ (/\ ret.op = "store" /\ ret.ok /\ ret.backend = IDB
           /\ ret'.op = "get" /\ ret'.id = ret.val.id /\ ret'.bad = {})
          => (ret'.ok /\ Retrievable(IDB, Store, ret.val.id))]_vars

----------------------------------------------------------------------------
\* C27: once the init() calls made so far are over, the backend list holds
\* each type of backend at most once, IndexedDB before localStorage, and
\* currentBackend is its first entry.
C27_BackendsOnce ==
    (\A i \in InitTasks : initPc[i] \in {"idle", "done", "failed"})
    => /\ \A b \in {IDB, LS} :
            Cardinality({k \in DOMAIN backends : backends[k] = b}) <= 1
       /\ \A k \in DOMAIN backends : backends[k] = IDB => k = 1
       /\ backends # <<>> => currentBackend = backends[1]

----------------------------------------------------------------------------
(* Calls on a manager whose init() nobody awaited: the constructor returns  *)
(* with init() under way, and the storage may hold a file of an earlier     *)
(* session.                                                                 *)

\* an empty storage, and what an earlier session left in it with one store
NoFiles == [idbFiles |-> {}, idbMeta |-> {}, lsFiles |-> Absent, lsIndex |-> Absent]

EarlierStore(b) ==
    StoreFile(<<b>>, NoFiles, "u1", FileNamed("a.txt"),
              CallerCategory(FileNamed("a.txt")), CallerMetadata,
              [c |-> [kind |-> "null", size |-> 0], n |-> 1, io |-> "ok"])

InitEarly ==
    /\ supIDB \in BOOLEAN
    /\ supLS \in BOOLEAN
    /\ backends = <<>>
    /\ currentBackend = Undefined
    /\ initPc = [i \in InitTasks |-> IF i = "constructor" THEN "persist" ELSE "idle"]
    /\ \E earlier \in {"none"} \cup {b \in {IDB, LS} : b \in Range(Pushed(supIDB, supLS))} :
          /\ idbFiles = IF earlier = IDB THEN {EarlierStore(IDB).tx.file} ELSE {}
          /\ idbMeta = IF earlier = IDB THEN {EarlierStore(IDB).tx.meta} ELSE {}
          /\ lsFiles = IF earlier = LS THEN EarlierStore(LS).lsFiles ELSE Absent
          /\ lsIndex = IF earlier = LS THEN EarlierStore(LS).lsIndex ELSE Absent
    /\ idbTx = Null
    /\ lsCalls = <<>>
    /\ ret = NoRet
    /\ quota = Null
    /\ admit = Null
    /\ batch = <<>>
    /\ opts = Null
    /\ bpos = 0
    /\ results = <<>>
    /\ isProcessing = FALSE
    /\ bpc = "idle"
    /\ jres = Null

\* storeFile, getUserFiles and getFile of the manager, called without
\* waiting for init()
EarlyStoreFile ==
    /\ NumRecords <= MaxRecords
    /\ IdbReady(backends)
    /\ \E up \in Uploads :
       \E ch \in Choices(up[2]) :
          LET username == up[1]
              file == up[2]
              r == StoreFile(backends, Store, username, file,
                             CallerCategory(file), CallerMetadata, ch)
          IN  /\ lsFiles' = r.lsFiles
              /\ lsIndex' = r.lsIndex
              /\ UNCHANGED lsCalls
              /\ idbTx' = r.tx
              /\ ret' = [op |-> "store", username |-> username, file |-> file,
                         ok |-> r.ok, err |-> IF r.ok THEN "" ELSE r.err,
                         val |-> IF r.ok THEN r.val ELSE Null,
                         backend |-> r.backend, processed |-> r.processed]
    /\ UNCHANGED <<mgrVars, idbFiles, idbMeta, quotaVars, batchVars>>

EarlyGetUserFiles ==
    /\ IdbReady(backends)
    /\ \E username \in Users :
          LET all == GetUserFiles(backends, Store, username, {})
          IN  ret' = [op |-> "list", username |-> username, bad |-> {},
                      ok |-> TRUE,
                      val |-> [i \in DOMAIN all |-> all[i].file],
                      src |-> [i \in DOMAIN all |-> all[i].from]]
    /\ UNCHANGED <<mgrVars, idbVars, lsVars, quotaVars, batchVars>>

EarlyGetFile ==
    /\ IdbReady(backends)
    /\ \E fileId \in AllIds :
          LET r == GetFile(backends, Store, fileId, {})
          IN  ret' = [op |-> "get", id |-> fileId, bad |-> {}, ok |-> r.ok,
                      err |-> IF r.ok THEN "" ELSE r.err,
                      val |-> IF r.ok THEN r.val ELSE Null,
                      from |-> r.from]
    /\ UNCHANGED <<mgrVars, idbVars, lsVars, quotaVars, batchVars>>

NextEarly ==
    \/ \E i \in InitTasks : InitCall(i)
    \/ \E i \in InitTasks : InitAfterPersist(i)
    \/ \E i \in InitTasks : InitIdbOpened(i)
    \/ \E i \in InitTasks : InitIdbFailed(i)
    \/ \E i \in InitTasks : InitLsDone(i)
    \/ IdbCommit
    \/ IdbAbort
    \/ EarlyStoreFile
    \/ EarlyGetUserFiles
    \/ EarlyGetFile

SpecEarly == InitEarly /\ [][NextEarly]_vars

\* C28: a storeFile, getUserFiles or getFile issued at any moment after the
\* constructor has returned behaves as if every backend the host supports
\* were registered: storeFile delegates to the first of them, getUserFiles
\* lists and getFile finds what they hold.
C28_NoPartialList ==
    [][\A full \in {Pushed(supIDB, supLS)} :
        /\ (ret'.op = "store" /\ ret' # ret /\ full # <<>>)
              => ret'.backend = full[1]
        /\ (ret'.op = "list" /\ ret' # ret)
              => {ret'.val[i].id : i \in DOMAIN ret'.val}
                   = UNION {ListedIds(b, Store, ret'.username) : b \in Range(full)}
        /\ (ret'.op = "get" /\ ret' # ret)
              => (ret'.ok <=> \E b \in Range(full) : Retrievable(b, Store, ret'.id))]_vars

----------------------------------------------------------------------------
(* Calls made on the LocalStorageBackend itself, as tasks of one event     *)
(* loop.  storeFile runs to its await of fileToBase64 with the id already  *)
(* generated, and goes on with saveToLocalStorage when the read has        *)
(* settled; saveToLocalStorage and deleteFile have no await.               *)

MaxCalls == 3

InitLs == InitLoaded /\ supLS /\ ~supIDB

\* storeFile up to the await: the size test and generateFileId
LsCallStore ==
    /\ Len(lsCalls) < MaxCalls
    /\ \E up \in Uploads, n \in 1..MaxIds :
          lsCalls' = Append(lsCalls,
              [kind |-> "store", id |-> FileId("ls_", n), args |-> up,
               state |-> IF up[2].size > LsMaxFileSize THEN "failed"
                         ELSE "reading"])
    /\ UNCHANGED <<mgrVars, idbVars, lsFiles, lsIndex, ret, quotaVars, batchVars>>

\* the read of call k has settled: storeFile goes on to its end
LsCallSettle(k) ==
    /\ lsCalls[k].state = "reading"
    /\ \E rd \in {"ok", "fail"}, wr \in {"ok", "deny1", "deny2"} :
          LET c == lsCalls[k]
              r == LsStoreFile(lsFiles, lsIndex, c.args[1], c.args[2],
                               CallerCategory(c.args[2]), CallerMetadata,
                               c.id.n, rd, wr)
          IN  /\ lsFiles' = r.files
              /\ lsIndex' = r.index
              /\ lsCalls' = [lsCalls EXCEPT
                               ![k].state = IF r.ok THEN "ok" ELSE "failed"]
    /\ UNCHANGED <<mgrVars, idbVars, ret, quotaVars, batchVars>>

\* deleteFile, from its call to its return
LsCallDelete ==
    /\ Len(lsCalls) < MaxCalls
    /\ \E fileId \in LsIds :
          LET r == LsDeleteFile(lsFiles, lsIndex, fileId)
          IN  /\ lsFiles' = r.files
              /\ lsIndex' = r.index
              /\ lsCalls' = Append(lsCalls,
                    [kind |-> "delete", id |-> fileId, args |-> <<>>,
                     state |-> IF r.ok THEN "ok" ELSE "failed"])
    /\ UNCHANGED <<mgrVars, idbVars, ret, quotaVars, batchVars>>

NextLs ==
    \/ LsCallStore
    \/ \E k \in 1..MaxCalls : k <= Len(lsCalls) /\ LsCallSettle(k)
    \/ LsCallDelete

SpecLs == InitLs /\ [][NextLs]_vars

\* the stores that succeeded and were not deleted afterwards
LsKept ==
    {k \in DOMAIN lsCalls :
       /\ lsCalls[k].kind = "store" /\ lsCalls[k].state = "ok"
       /\ ~\E j \in DOMAIN lsCalls :
             /\ lsCalls[j].kind = "delete" /\ lsCalls[j].state = "ok"
             /\ lsCalls[j].id = lsCalls[k].id}

\* C29: when every call has returned, whatever their interleaving, the
\* list of each user holds one record for each store that succeeded and
\* was not deleted, and nothing else, and the index has an entry for
\* exactly those records.
C29_NoLostUpdate ==
    (\A k \in DOMAIN lsCalls : lsCalls[k].state # "reading")
    => /\ \A u \in Users :
            /\ LsListedIds(Store, u)
                 = {lsCalls[k].id : k \in {j \in LsKept : lsCalls[j].args[1] = u}}
            /\ u \in DOMAIN LsParse(lsFiles) =>
                 Len(LsParse(lsFiles)[u])
                   = Cardinality({j \in LsKept : lsCalls[j].args[1] = u})
       /\ DOMAIN LsParse(lsIndex) = {lsCalls[k].id : k \in LsKept}

----------------------------------------------------------------------------
\* the result a json store of the batch has just added to jres
JsonStored ==
    {k \in {"original", "sql", "nosql"} : jres[k] = Null /\ jres'[k] # Null}

\* C30: processJsonFile stores the original (when storeSeparately is set),
\* then the SQL conversion, then the NoSQL conversion; a conversion record
\* carries as metadata.originalFileId the id of the original stored by the
\* same call, or null when the original was not stored; the call returns a
\* preview only when both conversions were asked for.
C30_FixedOrder ==
    [][(bpc = "json" /\ jres' # Null)
       => /\ \A k \in JsonStored :
               /\ k = "original" =>
                     (opts.storeOriginal /\ jres.sql = Null /\ jres.nosql = Null)
               /\ k = "sql" =>
                     /\ opts.convertToSQL /\ jres.nosql = Null
                     /\ opts.storeOriginal => jres.original # Null
               /\ k = "nosql" =>
                     /\ opts.convertToNoSQL
                     /\ opts.storeOriginal => jres.original # Null
                     /\ opts.convertToSQL => jres.sql # Null
               /\ k # "original" =>
                     /\ jres'[k].metadata.originalFileId
                          = (IF jres.original # Null THEN jres.original.id ELSE Null)
                     /\ jres.original = Null => ~opts.storeOriginal
          /\ jres'.preview =>
               (opts.convertToSQL /\ opts.convertToNoSQL /\ jres'.todo = <<>>)]_vars

\* C30 witness: a call that stored the original and both conversions and
\* returned a preview, the conversions naming the original
C30_Witness ==
    /\ jres # Null /\ jres.todo = <<>> /\ jres.preview
    /\ jres.original # Null /\ jres.sql # Null /\ jres.nosql # Null
    /\ jres.sql.metadata.originalFileId = jres.original.id
    /\ jres.nosql.metadata.originalFileId = jres.original.id

====
